---- MODULE Spec2Model ----
(***************************************************************************)
(* schedule_state: the day schedule of one sensor                          *)
(* (custom_components/schedule_state/sensor.py).                           *)
(*                                                                         *)
(* Time.  An absolute timestamp (datetime) is a number of seconds since    *)
(* 00:00 of day 0; a time of day (datetime.time) is a number of seconds    *)
(* since midnight.  The model has one time zone: dt.as_local is the        *)
(* identity on it.  time.max is 23:59:59.999999; every other time of day   *)
(* in the model is a whole second, so time.max is written as the bound     *)
(* that lies after every second of the day (Day).                          *)
(*                                                                         *)
(* Interval sets.  A portion interval set built from P.closedopen is a     *)
(* finite set of atomic intervals <<lower, upper>>, closed below and open  *)
(* above, kept the way portion keeps it: non-empty, pairwise disjoint and  *)
(* never adjacent.                                                         *)
(***************************************************************************)
EXTENDS Integers, Sequences, FiniteSets, TLC

\* ------------------------------------------------------------------ time

Minute == 60
Hour == 60 * Minute
Day == 24 * Hour

\* time.min and time.max
time_min == 0
time_max == Day

\* an absent value (Python None) in a field that holds a time or a number
NoTime == -1
\* a start / end / offset whose template failed or whose value cannot be parsed
BadTime == -2
\* an absent value in a field that holds a string
None == "None"

\* the time of day h:m
HM(h, m) == h * Hour + m * Minute

\* datetime.time(), datetime.hour, and the date part of a timestamp
TimeOf(d) == d % Day
HourOf(t) == (t % Day) \div Hour
DateOf(d) == d \div Day

Min2(a, b) == IF a <= b THEN a ELSE b
Max2(a, b) == IF a >= b THEN a ELSE b

\* ------------------------------------------------------- interval sets

\* P.closedopen(lower, upper): empty when lower >= upper
closedopen(lower, upper) == IF lower < upper THEN {<<lower, upper>>} ELSE {}

\* nu in ivs
Contains(ivs, t) == \E iv \in ivs : iv[1] <= t /\ t < iv[2]

\* the least element of a non-empty set of numbers
MinOf(S) == CHOOSE m \in S : \A x \in S : m <= x

\* portion's normal form of a set of closed-open intervals: the maximal
\* intervals of their union (overlapping and adjacent ones are merged).
\* A maximal interval starts at a lower bound that no other interval reaches
\* or touches from the left and ends at the first upper bound after it that
\* no interval contains.
Normalize(S) ==
    LET N == {v : v \in {iv \in S : iv[1] < iv[2]}}
        starts == {l \in {iv[1] : iv \in N} :
                      ~ \E iv \in N : iv[1] < l /\ l <= iv[2]}
        ends == {h \in {iv[2] : iv \in N} : ~ Contains(N, h)}
    IN  {<<l, MinOf({h \in ends : h > l})>> : l \in starts}

\* A | B
IvUnion(A, B) == Normalize(A \cup B)

\* A & B (of two sets in normal form: the pairwise intersections)
IvInter(A, B) ==
    {v : v \in {iv \in {<<Max2(a[1], b[1]), Min2(a[2], b[2])>> :
                           <<a, b>> \in A \X B} : iv[1] < iv[2]}}

\* a - B for one interval a: what is left of a starts at a's lower bound or
\* at an upper bound of B inside a, and runs to the next lower bound of B
\* or to a's upper bound
IvDiff1(a, B) ==
    LET starts == {l \in {a[1]} \cup {b[2] : b \in B} :
                      a[1] <= l /\ l < a[2] /\ ~ Contains(B, l)}
    IN  {<<l, MinOf({a[2]} \cup {b[1] : b \in {c \in B : c[1] > l}})>> :
            l \in starts}

\* A - B
IvDiff(A, B) == UNION {IvDiff1(a, B) : a \in A}

\* A.overlaps(B)
IvOverlaps(A, B) ==
    \E a \in A, b \in B : Max2(a[1], b[1]) < Min2(a[2], b[2])

\* ------------------------------------------------------------ partition
\* A partition (the dict `states`) is a sequence of entries
\* [label, iv] in the dict's insertion order.

Labels(states) == {states[i].label : i \in 1..Len(states)}

\* _handle_layer without the carving: the entry is returned as it is
_handle_layer_keep(entry, this_attr, interval) == entry

_handle_layer(entry, this_attr, interval) ==
    IF entry.label = this_attr
    THEN entry
    ELSE LET overlap == IvInter(interval, entry.iv)
         IN  IF IvOverlaps(interval, entry.iv)
             THEN [entry EXCEPT !.iv = IvDiff(entry.iv, overlap)]
             ELSE entry

\* _handle_layers that always adds a new entry for the label
_handle_layers_append(states, this_attr, interval) ==
    Append([i \in 1..Len(states) |->
               _handle_layer(states[i], this_attr, interval)] \o <<>>,
           [label |-> this_attr, iv |-> interval])

_handle_layers(states, this_attr, interval) ==
    LET carved == [i \in 1..Len(states) |->
                      _handle_layer(states[i], this_attr, interval)] \o <<>>
    IN  IF this_attr \notin Labels(states)
        THEN Append(carved, [label |-> this_attr, iv |-> interval])
        ELSE [i \in 1..Len(carved) |->
                 IF carved[i].label = this_attr
                 THEN [carved[i] EXCEPT !.iv = IvUnion(carved[i].iv, interval)]
                 ELSE carved[i]] \o <<>>

\* _get_intervals that keeps only the evening half of a wrapping item
_get_intervals_first_half(start, end, allow_wrap) ==
    IF start < end THEN [ivs |-> <<closedopen(start, end)>>, error |-> FALSE]
    ELSE IF start = end THEN [ivs |-> <<>>, error |-> FALSE]
    ELSE IF allow_wrap
         THEN [ivs |-> <<closedopen(start, time_max)>>, error |-> FALSE]
         ELSE [ivs |-> <<>>, error |-> TRUE]

\* _async_process_cond that takes every condition as satisfied
_async_process_cond_true(cond, env) == "True"

\* _get_intervals without its branch for start = end: equal times wrap
\* around the day when wrapping is allowed and are refused when it is not
_get_intervals_equal_wraps(start, end, allow_wrap) ==
    IF start < end THEN [ivs |-> <<closedopen(start, end)>>, error |-> FALSE]
    ELSE IF allow_wrap
         THEN [ivs |-> <<closedopen(start, time_max), closedopen(time_min, end)>>,
               error |-> FALSE]
         ELSE [ivs |-> <<>>, error |-> TRUE]

\* the result is [ivs |-> the intervals, in order, error |-> start > end refused]
_get_intervals(start, end, allow_wrap) ==
    IF start < end THEN [ivs |-> <<closedopen(start, end)>>, error |-> FALSE]
    ELSE IF start = end THEN [ivs |-> <<>>, error |-> FALSE]
    ELSE IF allow_wrap
         THEN [ivs |-> <<closedopen(start, time_max), closedopen(time_min, end)>>,
               error |-> FALSE]
         ELSE [ivs |-> <<>>, error |-> TRUE]

\* find_interval that returns the span of all the intervals of the label
find_interval_hull(states, nu) ==
    LET hits == {i \in 1..Len(states) : Contains(states[i].iv, nu)}
    IN  IF hits = {}
        THEN [found |-> FALSE, state |-> None, lower |-> NoTime, upper |-> NoTime]
        ELSE LET i == CHOOSE j \in hits : \A k \in hits : j <= k
             IN  [found |-> TRUE, state |-> states[i].label,
                  lower |-> CHOOSE l \in {v[1] : v \in states[i].iv} :
                                \A v \in states[i].iv : l <= v[1],
                  upper |-> CHOOSE u \in {v[2] : v \in states[i].iv} :
                                \A v \in states[i].iv : u >= v[2]]

\* find_interval: [found, state, lower, upper]; found = FALSE is the
\* AssertionError of 'assert False'
find_interval(states, nu) ==
    LET hits == {i \in 1..Len(states) : Contains(states[i].iv, nu)}
    IN  IF hits = {}
        THEN [found |-> FALSE, state |-> None, lower |-> NoTime, upper |-> NoTime]
        ELSE LET i  == CHOOSE j \in hits : \A k \in hits : j <= k
                 iv == CHOOSE v \in states[i].iv : v[1] <= nu /\ nu < v[2]
             IN  [found |-> TRUE, state |-> states[i].label,
                  lower |-> iv[1], upper |-> iv[2]]

\* --------------------------------------------------------------- config
\* An event of the configuration is a record
\*   [state, cond, start, end, start_offset, end_offset, allow_wrap]
\* holding what evaluate_template yields for each key:
\*   state        a label, or TemplateFailed when its template does not render
\*   cond         None, or the name of a condition of the environment
\*   start, end   a time of day, NoTime when the key is absent, BadTime when
\*                the template fails or guess_value cannot parse the result
\*   *_offset     minutes (0 when absent), BadOffset when it is no number
\*   allow_wrap   "True", "False", or None when the key is absent
\*   extra        the other keys of the event, a sequence of <<key, value>>:
\*                the value of an extra attribute, TemplateFailed when it is a
\*                template that does not render
\* The sensor's extra_attributes is a sequence of <<key, default>> in the
\* order of the mapping, the default being None when the key is given null.

TemplateFailed == "TemplateFailed"
BadOffset == 100000

\* CONF_MINUTES_TO_REFRESH_ON_ERROR and CONF_REFRESH, at their defaults
minutes_to_refresh_on_error == 5
refresh == 6 * Hour

\* CONF_DEFAULT_STATE of the modelled sensor
default_state == "off"

Event(state, cond, start, end, allow_wrap) ==
    [state |-> state, cond |-> cond, start |-> start, end |-> end,
     start_offset |-> 0, end_offset |-> 0, allow_wrap |-> allow_wrap,
     extra |-> <<>>, icon |-> None]

\* dict.get(key, None) on a mapping kept as a sequence of <<key, value>>
Get(d, key) ==
    LET hits == {i \in 1..Len(d) : d[i][1] = key}
    IN  IF hits = {} THEN None ELSE d[CHOOSE i \in hits : TRUE][2]

\* an override, read as an event by process_events (event.get(...))
OverrideAsEvent(o) ==
    [state |-> o.state, cond |-> None, start |-> o.start, end |-> o.end,
     start_offset |-> 0, end_offset |-> 0, allow_wrap |-> o.allow_wrap,
     extra |-> <<>>, icon |-> o.icon]

\* ------------------------------------------------------- process_events

\* What the condition "c" is in the environment: "True", "False", "None"
\* (a check raises ConditionError), or Invalid (condition.async_from_config
\* raises HomeAssistantError: the condition cannot be built).
Invalid == "Invalid"
AttributeError == "AttributeError"

\* _async_process_if: the function if_action, or None for a condition that
\* cannot be built
_async_process_if(cond, env) == IF env = Invalid THEN None ELSE "if_action"

\* _async_process_cond: "True", "False" or "None" (the condition raised);
\* AttributeError when cond_func is None and cond_func.config is read
_async_process_cond(cond, env) ==
    IF cond = None THEN "True"
    ELSE IF _async_process_if(cond, env) = None THEN AttributeError
    ELSE env

\* NoTime stands for the None that get_start / get_end return on failure
get_start(event) ==
    IF event.start = NoTime THEN time_min
    ELSE IF event.start = BadTime THEN NoTime
    ELSE event.start

get_end(event) ==
    IF event.end = NoTime THEN time_max
    ELSE IF event.end = BadTime THEN NoTime
    ELSE event.end

\* datetime_from_time(t) + timedelta(minutes=offset), then .time(): the date
\* is dropped, so the sum wraps around midnight.  time.max moved by a whole
\* number of minutes is written as the next whole second.
apply_offset(t, offset) ==
    IF t = time_max /\ offset = 0 THEN time_max
    ELSE (t + offset * Minute) % Day

\* the candidate new_refresh_time, whatever deadline is pending
NextForceRefresh_latest(pending, now) ==
    now + minutes_to_refresh_on_error * Minute

\* the force_refresh that an item with an evaluation error sets: the
\* candidate new_refresh_time, or the pending deadline when that is sooner
NextForceRefresh(pending, now) ==
    LET new_refresh_time == now + minutes_to_refresh_on_error * Minute
    IN  IF pending # NoTime
        THEN Min2(pending, new_refresh_time)
        ELSE new_refresh_time

\* self.icon_map is kept as the set of the <<label, icon>> of the labels
\* whose icon is not None: it is only read by icon_map.get(state, None), for
\* which a label set to None and a label that is absent are the same.
IconOf(icon_map, state) ==
    IF \E e \in icon_map : e[1] = state
    THEN (CHOOSE e \in icon_map : e[1] = state)[2]
    ELSE None

\* evaluate_template(event, CONF_ICON).result: an icon is a cv.icon string,
\* never a template, so that the evaluation always succeeds
evaluate_icon(event) == event.icon

\* self.icon_map[state] = icon
SetIcon(icon_map, state, icon) ==
    {e \in icon_map : e[1] # state}
        \cup IF icon = None THEN {} ELSE {<<state, icon>>}

\* the value that _add_interval layers for the attribute xattr of default
\* dv: that of the item, else dv (None: no layer is added)
AttrValue(extra, xattr, dv) ==
    LET attr_val == Get(extra, xattr)
    IN  IF attr_val # None /\ attr_val # TemplateFailed THEN attr_val ELSE dv

\* _add_interval on acc.states and acc.attrs, `extra` being the keys of the
\* event (of self.extra_attributes, for the default layer)
_add_interval(acc, extra, state, interval) ==
    [acc EXCEPT
        !.states = _handle_layers(@, state, interval),
        !.attrs = [i \in 1..Len(acc.extra_attributes) |->
                      LET val == AttrValue(extra, acc.extra_attributes[i][1],
                                           acc.extra_attributes[i][2])
                      IN  IF val # None
                          THEN _handle_layers(acc.attrs[i], val, interval)
                          ELSE acc.attrs[i]] \o <<>>]

\* One pass of the loop body of process_events over `event`.
\* acc = [states, attrs, extra_attributes, known_states, error_states,
\*        force_refresh, icon_map, raised]; raised: an exception has left the
\* loop
ProcessEvent(acc, event, now, env, allow_wrap_global) ==
    IF event.state = TemplateFailed
    THEN acc
    ELSE
    LET state == event.state
        known == [acc EXCEPT !.known_states = @ \cup {state}]
        force_refresh == NextForceRefresh(acc.force_refresh, now)
        retry == [known EXCEPT !.force_refresh = force_refresh,
                               !.error_states = @ \cup {state}]
        cond_result == _async_process_cond(event.cond, env)
        start == get_start(event)
        end == IF start = NoTime THEN NoTime ELSE get_end(event)
    IN  IF cond_result = AttributeError THEN [known EXCEPT !.raised = TRUE]
        ELSE IF cond_result = "False" THEN known
        ELSE IF cond_result = "None" THEN retry
        ELSE IF start = NoTime \/ end = NoTime THEN retry
        ELSE IF event.start_offset = BadOffset \/ event.end_offset = BadOffset
             THEN retry
        ELSE
        LET allow_wrap ==
                IF event.allow_wrap = None THEN allow_wrap_global
                ELSE event.allow_wrap = "True"
            got == _get_intervals(apply_offset(start, event.start_offset),
                                  apply_offset(end, event.end_offset),
                                  allow_wrap)
            iconed == [known EXCEPT !.icon_map =
                          SetIcon(@, state, evaluate_icon(event))]
        IN  IF got.error
            THEN [known EXCEPT !.error_states = @ \cup {state}]
            ELSE IF Len(got.ivs) = 0 THEN iconed
            ELSE IF Len(got.ivs) = 1
                 THEN _add_interval(iconed, event.extra, state, got.ivs[1])
            ELSE _add_interval(
                     _add_interval(iconed, event.extra, state, got.ivs[1]),
                     event.extra, state, got.ivs[2])

RECURSIVE ProcessAll(_, _, _, _, _)
ProcessAll(acc, items, now, env, allow_wrap_global) ==
    IF items = <<>> \/ acc.raised THEN acc
    ELSE CHOOSE out \in
             {ProcessAll(next, Tail(items), now, env, allow_wrap_global) :
                 next \in {ProcessEvent(acc, Head(items), now, env,
                                        allow_wrap_global)}} : TRUE

\* the overrides ahead of the events (self.overrides + self.events)
LayerItems_overrides_first(events, ovs) ==
    [i \in 1..Len(ovs) |-> OverrideAsEvent(ovs[i])] \o events

\* the events then the overrides, in this order (self.events + self.overrides)
LayerItems(events, ovs) ==
    events \o [i \in 1..Len(ovs) |-> OverrideAsEvent(ovs[i])]

\* ---------------------------------------------------- ScheduleSensorData
\* `self` is the record of the fields of one ScheduleSensorData:
\*   [overrides, _states, _custom_attributes, known_states, error_states,
\*    force_refresh, _refresh_time, value, attributes]
\* force_refresh = NoTime is None; attributes = [start, end, next_state,
\* extra], a key that is not set being NoTime / None and extra the extra
\* attributes set so far, as <<key, value>>; _custom_attributes holds one
\* partition for each extra attribute, in the order of the sensor's
\* extra_attributes.  raised: an exception is leaving the current call.
\* Two history fields ride along:
\*   compiled_from   the overrides that process_events read when it built
\*                   the published _states
\*   compiles        the number of process_events runs of the current call

NoAttributes ==
    [start |-> NoTime, end |-> NoTime, next_state |-> None, icon |-> None,
     extra |-> <<>>]

\* ScheduleSensorData.__init__
NewData ==
    [overrides |-> <<>>, _states |-> <<>>, _custom_attributes |-> <<>>,
     known_states |-> {},
     error_states |-> {}, force_refresh |-> NoTime, _refresh_time |-> NoTime,
     icon_map |-> {},
     value |-> None, attributes |-> NoAttributes, raised |-> FALSE,
     compiled_from |-> <<>>, compiles |-> 0]

process_events(self, config, env, now) ==
    LET empty == [states |-> <<>>,
                  attrs |-> [i \in 1..Len(config.extra_attributes) |-> <<>>]
                               \o <<>>,
                  extra_attributes |-> config.extra_attributes,
                  known_states |-> {default_state},
                  error_states |-> {},
                  force_refresh |-> self.force_refresh,
                  icon_map |-> self.icon_map,
                  raised |-> FALSE]
        seed == _add_interval(empty, config.extra_attributes, default_state,
                              closedopen(time_min, time_max))
    IN  CHOOSE out \in
          { IF r.raised
            THEN [self EXCEPT !.known_states = r.known_states,
                              !.error_states = r.error_states,
                              !.force_refresh = r.force_refresh,
                              !.icon_map = r.icon_map,
                              !.raised = TRUE,
                              !.compiles = @ + 1]
            ELSE [self EXCEPT !._states = r.states,
                              !._custom_attributes = r.attrs,
                              !.known_states = r.known_states,
                              !.error_states = r.error_states,
                              !.force_refresh = r.force_refresh,
                              !.icon_map = r.icon_map,
                              !._refresh_time = now,
                              !.compiled_from = self.overrides,
                              !.compiles = @ + 1] :
            r \in {ProcessAll(seed,
                              LayerItems(config.events, self.overrides),
                              now, env, config.allow_wrap)} } : TRUE

\* ------------------------------------------------------------- overrides
\* An override is a record [id, state, start, end, expires, allow_wrap]:
\* start and end are times of day, expires is a timestamp, allow_wrap is
\* "True" when the key is set and None when it is absent.

\* Override.__init__
Override(id, state, start, end, expires, allow_wrap) ==
    [id |-> id, state |-> state, start |-> start, end |-> end,
     expires |-> expires, allow_wrap |-> allow_wrap, icon |-> None]

\* the same event, override or service call with the icon `icon`
WithIcon(item, icon) == [item EXCEPT !.icon = icon]

\* a margin of a whole minute
ExpiryMargin_minute == Minute

\* timedelta(seconds=30)
ExpiryMargin == 30

\* simple_time that keeps the seconds
simple_time_keep(n) == n

\* simple_time: n with the seconds removed
simple_time(n) == n - (n % Minute)

\* start_of_next_day
start_of_next_day(d) == (DateOf(d) + 1) * Day

\* next_time comparing the whole time of day, not the hour alone
next_time_full(now, t) ==
    IF TimeOf(now) > TimeOf(t)
    THEN start_of_next_day(now) + simple_time(TimeOf(t))
    ELSE DateOf(now) * Day + simple_time(TimeOf(t))

\* next_time(now, t): t is a time of day (or the time of day of a timestamp);
\* only t.hour and t.minute are used
next_time(now, t) ==
    IF HourOf(now) > HourOf(t)
    THEN start_of_next_day(now) + simple_time(TimeOf(t))
    ELSE DateOf(now) * Day + simple_time(TimeOf(t))

\* the if / elif chain of set_override: [valid, start, end, allow_wrap] with
\* start and end timestamps
ResolveOverride(config, start, end, duration, now) ==
    LET refused == [valid |-> FALSE, start |-> NoTime, end |-> NoTime,
                    allow_wrap |-> TRUE]
    IN  IF start = NoTime /\ end = NoTime /\ duration = NoTime THEN refused
        ELSE IF start # NoTime /\ end # NoTime /\ duration # NoTime THEN refused
        ELSE IF start = NoTime /\ end = NoTime /\ duration # NoTime
             THEN [valid |-> TRUE, start |-> simple_time(now),
                   end |-> simple_time(now) + duration * Minute,
                   allow_wrap |-> TRUE]
        ELSE IF start # NoTime /\ end = NoTime /\ duration # NoTime
             THEN [valid |-> TRUE, start |-> next_time(now, start),
                   end |-> next_time(now, start) + duration * Minute,
                   allow_wrap |-> TRUE]
        ELSE IF start = NoTime /\ end # NoTime /\ duration # NoTime
             THEN [valid |-> TRUE, start |-> next_time(now, end) - duration * Minute,
                   end |-> next_time(now, end),
                   allow_wrap |-> TRUE]
        ELSE IF start = NoTime /\ end # NoTime /\ duration = NoTime
             THEN [valid |-> TRUE, start |-> next_time(now, now),
                   end |-> next_time(now, end),
                   allow_wrap |-> TRUE]
        ELSE IF start # NoTime /\ end # NoTime /\ duration = NoTime
             THEN [valid |-> TRUE, start |-> next_time(now, start),
                   end |-> next_time(now, end),
                   allow_wrap |-> config.allow_wrap]
        ELSE refused

\* the insertion test without `allow_wrap and`
OverrideAccepted_any_wrap(start, end, allow_wrap) ==
    end > start \/ start > end

\* the test that guards the insertion, on the times of day
OverrideAccepted(start, end, allow_wrap) ==
    end > start \/ (allow_wrap /\ start > end)

\* the indices of the overrides with this id, {} standing for None
_find_override_by_id(ovs, id) ==
    IF id = None THEN {}
    ELSE {i \in 1..Len(ovs) : ovs[i].id = id}

\* ovs without the entries at the indices idxs
RemoveAt(ovs, idxs) ==
    LET F[i \in 0..Len(ovs)] ==
            IF i = 0 THEN <<>>
            ELSE IF i \in idxs THEN F[i - 1] ELSE Append(F[i - 1], ovs[i])
    IN  F[Len(ovs)]

\* _add_or_edit_override with expect_duplicate_id = True: always append
_add_or_edit_override_append(ovs, id, ev) == Append(ovs, ev)

\* _add_or_edit_override that drops the old records and appends the new one
_add_or_edit_override_move(ovs, id, ev) ==
    Append(RemoveAt(ovs, _find_override_by_id(ovs, id)), ev)

_add_or_edit_override(ovs, id, ev) ==
    LET idxs == _find_override_by_id(ovs, id)
    IN  IF idxs = {}
        THEN Append(ovs, ev)
        ELSE LET idx == CHOOSE i \in idxs : \A j \in idxs : i <= j
             IN  RemoveAt([ovs EXCEPT ![idx] = ev], idxs \ {idx})

\* set_override: [ok, self]
set_override(self, config, id, state, start, end, duration, icon, now) ==
    LET r == ResolveOverride(config, start, end, duration, now)
    IN  IF ~ r.valid
        THEN [ok |-> FALSE, self |-> self]
        ELSE
        LET s == TimeOf(r.start)
            e == TimeOf(r.end)
            expires == r.end + ExpiryMargin
            ev == WithIcon(Override(id, state, s, e, expires,
                                    IF r.allow_wrap THEN "True" ELSE None),
                           icon)
        IN  IF OverrideAccepted(s, e, r.allow_wrap)
            THEN [ok |-> TRUE,
                  self |-> [self EXCEPT !.overrides =
                               _add_or_edit_override(@, id, ev)]]
            ELSE [ok |-> FALSE, self |-> self]

\* remove_override matching el["id"] == id without the test for None
remove_override_anonymous(self, id) ==
    LET idxs == {i \in 1..Len(self.overrides) : self.overrides[i].id = id}
    IN  IF idxs = {}
        THEN [ok |-> FALSE, self |-> self]
        ELSE [ok |-> TRUE,
              self |-> [self EXCEPT !.overrides = RemoveAt(@, idxs)]]

\* remove_override: [ok, self]
remove_override(self, id) ==
    LET idxs == _find_override_by_id(self.overrides, id)
    IN  IF idxs = {}
        THEN [ok |-> FALSE, self |-> self]
        ELSE [ok |-> TRUE,
              self |-> [self EXCEPT !.overrides = RemoveAt(@, idxs)]]

\* clear_overrides: [ok, self]
clear_overrides(self) ==
    IF Len(self.overrides) > 0
    THEN [ok |-> TRUE, self |-> [self EXCEPT !.overrides = <<>>]]
    ELSE [ok |-> FALSE, self |-> self]

\* --------------------------------------------------------------- update

\* the probe moved a minute past t instead of a second
PlusOneMinute(t) == IF t = time_max THEN time_min ELSE (t + Minute) % Day

\* (datetime.combine(now, t) + timedelta(seconds=1)).time(); one second after
\* time.max is 00:00:00.999999, which lies in the first second of the day
PlusOneSecond(t) == IF t = time_max THEN time_min ELSE (t + 1) % Day

\* the overrides that have not expired
Unexpired(ovs, now) ==
    LET F[i \in 0..Len(ovs)] ==
            IF i = 0 THEN <<>>
            ELSE IF ovs[i].expires > now THEN Append(F[i - 1], ovs[i])
            ELSE F[i - 1]
    IN  F[Len(ovs)]

\* is a refresh of the schedule due?
RefreshDue(self, now) ==
    \/ now - self._refresh_time >= refresh
    \/ (self.force_refresh # NoTime /\ now > self.force_refresh)

\* the end of update: the value of each extra attribute at nu, in the order
\* of the keys; [ok, self], ok = FALSE when a find_interval asserts, the
\* attributes before it being set
ExtraAttributes(self, config, nu) ==
    LET keys == config.extra_attributes
        val(i) == find_interval(self._custom_attributes[i], nu)
        bad == {i \in 1..Len(keys) : ~ val(i).found}
        upto == IF bad = {} THEN Len(keys)
                ELSE (CHOOSE i \in bad : \A j \in bad : i <= j) - 1
    IN  [ok |-> bad = {},
         self |-> [self EXCEPT !.attributes.extra =
                      [i \in 1..upto |-> <<keys[i][1], val(i).state>>]
                          \o <<>>]]

\* the part of update after the refresh: the state, its interval and the
\* next state at `now`; [ok, self], ok = FALSE when find_interval asserts
Query(self, config, now) ==
    LET nu == simple_time(TimeOf(now))
        cur == find_interval(self._states, nu)
    IN  IF ~ cur.found THEN [ok |-> FALSE, self |-> self]
        ELSE
        LET s1 == [self EXCEPT !.value = cur.state,
                               !.attributes.start = cur.lower,
                               !.attributes.end = cur.upper,
                               !.attributes.icon =
                                   IconOf(self.icon_map, cur.state)]
            peek == find_interval(self._states, time_min)
            joined == cur.upper = time_max /\ peek.found /\ peek.state = cur.state
            s2 == IF joined THEN [s1 EXCEPT !.attributes.end = peek.upper] ELSE s1
            next_nu == IF joined THEN PlusOneSecond(peek.upper)
                       ELSE PlusOneSecond(cur.upper)
            nxt == find_interval(self._states, next_nu)
        IN  IF cur.upper = time_max /\ ~ peek.found
            THEN [ok |-> FALSE, self |-> s1]
            ELSE IF cur.upper = time_max /\ peek.state # cur.state
            THEN ExtraAttributes(
                     [s2 EXCEPT !.attributes.next_state = peek.state],
                     config, nu)
            ELSE IF ~ nxt.found THEN [ok |-> FALSE, self |-> s2]
            ELSE ExtraAttributes(
                     [s2 EXCEPT !.attributes.next_state = nxt.state],
                     config, nu)

\* update: [ok, self]
update(self, config, env, now) ==
    LET swept == [self EXCEPT !.overrides = Unexpired(@, now),
                              !.attributes = NoAttributes]
    IN  IF \E i \in 1..Len(self.overrides) : self.overrides[i].expires = NoTime
        THEN [ok |-> FALSE, self |-> self]
        ELSE
        CHOOSE out \in
          { IF fresh.raised THEN [ok |-> FALSE, self |-> fresh]
            ELSE Query(fresh, config, now) :
            fresh \in
              { IF compiled.raised THEN compiled
                ELSE [compiled EXCEPT !.force_refresh = NoTime] :
                compiled \in IF RefreshDue(swept, now)
                             THEN {process_events(swept, config, env, now)}
                             ELSE {} }
              \cup IF RefreshDue(swept, now) THEN {} ELSE {swept} } : TRUE

\* the update that a handler runs after the call of a method: it is reached
\* only when no exception has left that method
then_update(self, config, env, now) ==
    CHOOSE out \in
        { IF done.raised THEN [ok |-> FALSE, self |-> done]
          ELSE update(done, config, env, now) : done \in {self} } : TRUE

\* ------------------------------------------------------ ScheduleSensor

\* async_set_override running process_events whatever set_override returned
async_set_override_recompiles(self, config, env, call, now) ==
    LET r == set_override(self, config, call.id, call.state, call.start,
                          call.end, call.duration, call.icon, now)
    IN  [ok |-> r.ok, self |-> process_events(r.self, config, env, now)]

\* ScheduleSensor.async_set_override: [ok, self]
async_set_override(self, config, env, call, now) ==
    LET r == set_override(self, config, call.id, call.state, call.start,
                          call.end, call.duration, call.icon, now)
    IN  IF r.ok
        THEN [ok |-> TRUE, self |-> process_events(r.self, config, env, now)]
        ELSE [ok |-> FALSE, self |-> self]

\* async_remove_override that leaves the compiled partitions as they are
async_remove_override_no_recompile(self, config, env, id, now) ==
    LET r == remove_override(self, id)
    IN  IF r.ok
        THEN [ok |-> TRUE, self |-> r.self]
        ELSE [ok |-> FALSE, self |-> self]

\* ScheduleSensor.async_remove_override: [ok, self]
async_remove_override(self, config, env, id, now) ==
    LET r == remove_override(self, id)
    IN  IF r.ok
        THEN [ok |-> TRUE, self |-> process_events(r.self, config, env, now)]
        ELSE [ok |-> FALSE, self |-> self]

\* ScheduleSensor.async_clear_overrides: [ok, self]
async_clear_overrides(self, config, env, now) ==
    LET r == clear_overrides(self)
    IN  IF r.ok
        THEN [ok |-> TRUE, self |-> process_events(r.self, config, env, now)]
        ELSE [ok |-> FALSE, self |-> self]

\* What the restore-state store holds for an override, and Override.from_dict
\* on it.  What a stored record holds under "expires" is one of
\*   <<"iso", t>>       the text of the timestamp t, as the store writes it
\*   <<"datetime", t>>  the datetime object t itself, of data that was
\*                      handed back without having been written as text
\*   <<"text", 0>>      text that is not the text of a date
\*   <<"baddate", 0>>   well-formed text of an impossible date
\*   <<"none", 0>>      null, or no such key
\*   <<"int", t>>       a number
\* The times of day start and end are handed to Override as they are stored.
ToStored(o) == [o EXCEPT !.expires = <<"iso", o.expires>>]

\* extra_restore_state_data: the overrides in native format
ToNative(o) == [o EXCEPT !.expires = <<"datetime", o.expires>>]

\* dt.parse_datetime: [raises, result]; text that is not well-formed yields
\* None, well-formed text of an impossible date raises ValueError, and what
\* is not text raises TypeError
parse_datetime(dt_str) ==
    IF dt_str[1] = "iso" THEN [raises |-> FALSE, result |-> dt_str[2]]
    ELSE IF dt_str[1] = "text" THEN [raises |-> FALSE, result |-> NoTime]
    ELSE [raises |-> TRUE, result |-> NoTime]

\* Override.from_dict: <<the override>>, or <<>> for None
from_dict(d) ==
    LET expires == parse_datetime(d.expires)
    IN  IF expires.raises THEN <<>>
        ELSE << [d EXCEPT !.expires = expires.result] >>

\* ScheduleSensor.async_update_config: [ok, self], ok that of async_update
async_update_config(self, config, env, override_list, now) ==
    LET F[i \in 0..Len(override_list)] ==
            IF i = 0 THEN <<>> ELSE F[i - 1] \o from_dict(override_list[i])
        restored == F[Len(override_list)]
    IN  IF Len(restored) > 0
        THEN then_update(process_events([self EXCEPT !.overrides = restored],
                                        config, env, now),
                         config, env, now)
        ELSE [ok |-> TRUE, self |-> self]

\* ---------------------------------------------------------------- bounds

\* the clock runs through the first NumInstants instants of ClockSeq
NumInstants == 5
\* no call of set_override takes the store past MaxOverrides overrides
MaxOverrides == 2

\* the instants at which something happens: day 0 at 09:15:00, 10:00:00,
\* 10:15:20, 10:18:00 and 23:50:00, then day 1 at 00:25:00, 10:00:00, 23:50:00
ClockSeq ==
    << HM(9, 15), HM(10, 0), HM(10, 15) + 20, HM(10, 18), HM(23, 50),
       Day + HM(0, 25), Day + HM(10, 0), Day + HM(23, 50) >>
LastInstant == ClockSeq[Min2(NumInstants, Len(ClockSeq))]

\* the calls of the set_override service
Call(id, state, start, end, duration) ==
    [id |-> id, state |-> state, start |-> start, end |-> end,
     duration |-> duration, icon |-> None]
OverrideCalls ==
    { Call(None, "on", NoTime, NoTime, NoTime),
      Call("a", "on", HM(9, 0), HM(10, 15), 30),
      Call("a", "on", HM(9, 0), NoTime, NoTime),
      Call("a", "off", NoTime, NoTime, 30),
      Call("a", "on", HM(9, 0), NoTime, 30),
      Call(None, "off", NoTime, HM(10, 15), 30),
      Call(None, "on", NoTime, HM(10, 15), NoTime),
      Call("a", "on", HM(23, 0), HM(10, 15), NoTime) }

\* the ids given to the remove_override service
RemoveIds == {None, "a", "b"}

\* what the condition "c" of the environment evaluates to
CondResults == {"True", "False", "None"}

\* the configurations: the events and the sensor's allow_wrap.  The times of
\* an event are cv.time values and may carry seconds: "tick" lasts one second
\* and "blip" thirty.
EventsA ==
    << Event("on", None, HM(8, 0), HM(12, 0), None),
       Event("away", None, HM(10, 0), HM(14, 0), None) >>
EventsB ==
    << Event("away", None, HM(10, 0), HM(14, 0), None),
       Event("on", None, HM(8, 0), HM(12, 0), None) >>
EventsC ==
    << Event("sleep", None, HM(23, 0), HM(1, 0), "True"),
       Event("on", "c", HM(9, 0), NoTime, None) >>
EventsD ==
    << Event("sleep", None, HM(23, 0), HM(1, 0), None),
       Event("on", None, HM(8, 0), HM(12, 0), None),
       Event("tick", None, HM(8, 0), HM(8, 0) + 1, None),
       Event("blip", None, HM(12, 0), HM(12, 0) + 30, None) >>
Configs ==
    { [events |-> EventsA, allow_wrap |-> TRUE, extra_attributes |-> <<>>],
      [events |-> EventsB, allow_wrap |-> FALSE, extra_attributes |-> <<>>],
      [events |-> EventsC, allow_wrap |-> FALSE, extra_attributes |-> <<>>],
      [events |-> EventsD, allow_wrap |-> FALSE, extra_attributes |-> <<>>] }

\* The configurations of the compilation study: every ordered pair of
\* different events of a pool in which each event takes one path of the loop
\* of process_events, under the extra attribute "mode" with a default, with a
\* null default, or without extra attributes.
WithExtra(event, extra) == [event EXCEPT !.extra = extra]
WithOffsets(event, start_offset, end_offset) ==
    [event EXCEPT !.start_offset = start_offset, !.end_offset = end_offset]
EventPool ==
    { WithExtra(Event("on", None, HM(8, 0), HM(12, 0), None),
                << <<"mode", "eco">> >>),
      Event("eve", None, HM(10, 0), NoTime, None),
      WithExtra(Event("away", "c", HM(10, 0), HM(14, 0), None),
                << <<"mode", "out">> >>),
      WithExtra(Event(TemplateFailed, None, HM(9, 0), HM(11, 0), None),
                << <<"mode", "lost">> >>),
      Event("bad", None, BadTime, HM(11, 0), None),
      WithOffsets(Event("ofs", None, HM(9, 0), HM(11, 0), None), 0, BadOffset),
      WithExtra(Event("sleep", None, HM(23, 0), HM(1, 0), None),
                << <<"mode", TemplateFailed>> >>),
      WithExtra(Event("nil", None, HM(9, 0), HM(9, 0), "True"),
                << <<"mode", "void">> >>),
      WithOffsets(Event("gap", None, HM(9, 0), HM(10, 0), None), 60, 0) }
CompileSettings ==
    { [allow_wrap |-> FALSE, extra_attributes |-> <<>>],
      [allow_wrap |-> FALSE, extra_attributes |-> << <<"mode", "std">> >>],
      [allow_wrap |-> FALSE, extra_attributes |-> << <<"mode", None>> >>],
      [allow_wrap |-> TRUE, extra_attributes |-> << <<"mode", "std">> >>] }
CompileConfigs ==
    { [events |-> es, allow_wrap |-> c.allow_wrap,
       extra_attributes |-> c.extra_attributes] :
          es \in {p \in EventPool \X EventPool : p[1] # p[2]},
          c \in CompileSettings }
CompileCondResults == CondResults \cup {Invalid}

\* The stored records of the restore study: two well-formed records, the text
\* of whose expires is 23:00 of day 0 and 12:00 of day 1, and records "m"
\* whose expires is each of the other kinds; the lists hold one record, or a
\* malformed record next to a well-formed one.
StoredA == Override("a", "on", HM(9, 0), HM(11, 0), <<"iso", HM(23, 0)>>, None)
StoredB ==
    Override("b", "away", HM(10, 0), HM(14, 0), <<"iso", Day + HM(12, 0)>>, None)
StoredMalformed ==
    { Override("m", "away", HM(9, 0), HM(13, 0), e, None) :
        e \in { <<"text", 0>>, <<"baddate", 0>>, <<"none", 0>>,
                <<"int", Day>>, <<"datetime", Day>> } }
StoredLists ==
    { <<StoredA>>, <<StoredA, StoredB>> }
    \cup { <<m>> : m \in StoredMalformed }
    \cup { <<StoredA, m>> : m \in StoredMalformed }
    \cup { <<m, StoredB>> : m \in StoredMalformed }

\* The interleaving study: the second event of the configuration has a
\* condition, at whose evaluation process_events can be suspended; at most
\* MaxTasks coroutines are suspended at a time.
MaxTasks == 2
AsyncConfigs ==
    { [events |-> << Event("on", None, HM(8, 0), HM(12, 0), None),
                     Event("away", "c", HM(10, 0), HM(14, 0), None) >>,
       allow_wrap |-> FALSE, extra_attributes |-> <<>>] }
AsyncCalls ==
    { Call("a", "eve", HM(9, 0), HM(11, 0), NoTime),
      Call("b", "eve", HM(13, 0), HM(15, 0), NoTime) }
AsyncRemoveIds == {"a", "b"}
AsyncCondResults == {"True", "False"}

\* the calls of set_override of the restore study
RestoreCalls ==
    { Call("a", "on", HM(9, 0), NoTime, 30),
      Call(None, "on", NoTime, HM(10, 15), NoTime) }

\* The icon study: "on" has an icon and "away" has none; overrides are set
\* with an icon on the default state, with another icon on "on", and with no
\* icon on "away".
IconConfigs ==
    { [events |-> << WithIcon(Event("on", None, HM(8, 0), HM(12, 0), None),
                              "mdi:sun"),
                     Event("away", None, HM(10, 0), HM(14, 0), None) >>,
       allow_wrap |-> FALSE, extra_attributes |-> <<>>] }
IconCalls ==
    { WithIcon(Call("a", "off", NoTime, NoTime, 30), "mdi:flash"),
      WithIcon(Call("b", "on", NoTime, NoTime, 30), "mdi:star"),
      Call("b", "away", NoTime, NoTime, 30) }

\* The switch study: a sensor that knows "on" and one that does not; the
\* services turn_on, turn_off and toggle are called with the default duration
\* of 30 minutes and with that of a whole day, whose override starts and ends
\* at the same time of day.
STATE_ON == "on"
STATE_OFF == "off"
SwitchConfigs ==
    { [events |-> << Event("on", None, HM(8, 0), HM(12, 0), None),
                     Event("away", None, HM(10, 0), HM(14, 0), None) >>,
       allow_wrap |-> FALSE, extra_attributes |-> <<>>],
      [events |-> << Event("away", None, HM(10, 0), HM(14, 0), None) >>,
       allow_wrap |-> FALSE, extra_attributes |-> <<>>] }
SwitchDurations == {30, Day \div Minute}

\* ----------------------------------------------------------------- state

VARIABLES
    cfg,            \* the configuration of the sensor
    cond_env,       \* what condition "c" evaluates to now
    now,            \* dt_now()
    overrides,      \* ScheduleSensorData.overrides
    _states,        \* ScheduleSensorData._states, the state partition
    _custom_attributes, \* the partition of each extra attribute
    known_states,
    error_states,
    force_refresh,
    _refresh_time,
    icon_map,       \* ScheduleSensorData.icon_map
    value,
    attributes,
    compiled_from,  \* history: the overrides _states was built from
    last,           \* history: the call that made the last step
    tasks           \* the process_events coroutines that are suspended

vars == <<cfg, cond_env, now, overrides, _states, _custom_attributes,
          known_states, error_states,
          force_refresh, _refresh_time, icon_map, value, attributes,
          compiled_from, last, tasks>>

Self ==
    [overrides |-> overrides, _states |-> _states,
     _custom_attributes |-> _custom_attributes,
     known_states |-> known_states, error_states |-> error_states,
     force_refresh |-> force_refresh, _refresh_time |-> _refresh_time,
     icon_map |-> icon_map,
     value |-> value, attributes |-> attributes, raised |-> FALSE,
     compiled_from |-> compiled_from, compiles |-> 0]

\* the fields of the ScheduleSensorData become those of self
Assign(self) ==
    /\ overrides' = self.overrides
    /\ _states' = self._states
    /\ _custom_attributes' = self._custom_attributes
    /\ known_states' = self.known_states
    /\ error_states' = self.error_states
    /\ force_refresh' = self.force_refresh
    /\ _refresh_time' = self._refresh_time
    /\ icon_map' = self.icon_map
    /\ value' = self.value
    /\ attributes' = self.attributes
    /\ compiled_from' = self.compiled_from

\* the same at the end of a call that was not suspended on its way
Becomes(self) ==
    /\ Assign(self)
    /\ tasks' = tasks

\* last = [op, arg, result, compiles, updated, removed, stored]: the service
\* or callback, the arguments of the service call, what the ScheduleSensor
\* method returned, how many times that method ran process_events, whether the
\* async_update that ends the call returned (FALSE: an exception left it),
\* the overrides that remove_override took out, and the stored records that
\* async_added_to_hass was handed
NoCall == Call(None, None, NoTime, NoTime, NoTime)
Last(op, arg, result, compiles, updated) ==
    [op |-> op, arg |-> arg, result |-> result, compiles |-> compiles,
     updated |-> updated, removed |-> {}, stored |-> <<>>]

Result(ok) == IF ok THEN "True" ELSE "False"

\* async_setup_platform, then the first async_update of the new entity
Setup(config, env, t) ==
    then_update(process_events(NewData, config, env, t), config, env, t)

\* the sensor of configuration cfg, set up at the first instant
InitSensor ==
    /\ cond_env = "True"
    /\ now = ClockSeq[1]
    /\ \E r \in {Setup(cfg, cond_env, now)} :
           /\ overrides = r.self.overrides
           /\ _states = r.self._states
           /\ _custom_attributes = r.self._custom_attributes
           /\ known_states = r.self.known_states
           /\ error_states = r.self.error_states
           /\ force_refresh = r.self.force_refresh
           /\ _refresh_time = r.self._refresh_time
           /\ icon_map = r.self.icon_map
           /\ value = r.self.value
           /\ attributes = r.self.attributes
           /\ compiled_from = r.self.compiled_from
           /\ last = Last("setup", NoCall, "None", 1, r.ok)
    /\ tasks = <<>>

Init ==
    /\ cfg \in Configs
    /\ InitSensor

\* ---------------------------------------------------------------- actions
\* Each service handler runs its ScheduleSensor method and then
\* async_update_ha_state(True), which runs async_update.

\* time passes to the next instant
Advance ==
    /\ now < LastInstant
    /\ now' = CHOOSE t \in {ClockSeq[i] : i \in 1..Len(ClockSeq)} :
                 /\ t > now
                 /\ \A i \in 1..Len(ClockSeq) : ClockSeq[i] > now => t <= ClockSeq[i]
    /\ last' = Last("advance", NoCall, "None", 0, TRUE)
    /\ UNCHANGED <<cfg, cond_env, overrides, _states, _custom_attributes,
                   known_states,
                   error_states, force_refresh, _refresh_time, icon_map,
                   value, attributes, compiled_from, tasks>>

\* a poll of the entity: ScheduleSensor.async_update
Poll ==
    /\ \E u \in {update(Self, cfg, cond_env, now)} :
           /\ Becomes(u.self)
           /\ last' = Last("update", NoCall, "None", 0, u.ok)
    /\ UNCHANGED <<cfg, cond_env, now>>

\* async_recalculate_service_handler
Recalculate ==
    /\ \E r \in {process_events(Self, cfg, cond_env, now)} :
       \E u \in {then_update(r, cfg, cond_env, now)} :
           /\ Becomes(u.self)
           /\ last' = Last("recalculate", NoCall, "None", r.compiles, u.ok)
    /\ UNCHANGED <<cfg, cond_env, now>>

\* async_set_override_service_handler
SetOverride(call) ==
    /\ \E r \in {async_set_override(Self, cfg, cond_env, call, now)} :
       \E u \in {then_update(r.self, cfg, cond_env, now)} :
           /\ Len(r.self.overrides) <= MaxOverrides
           /\ Becomes(u.self)
           /\ last' = Last("set_override", call, Result(r.ok),
                           r.self.compiles, u.ok)
    /\ UNCHANGED <<cfg, cond_env, now>>

\* async_remove_override_service_handler
RemoveOverride(id) ==
    /\ \E r \in {async_remove_override(Self, cfg, cond_env, id, now)} :
       \E u \in {then_update(r.self, cfg, cond_env, now)} :
           /\ Becomes(u.self)
           /\ last' = [Last("remove_override",
                            Call(id, None, NoTime, NoTime, NoTime),
                            Result(r.ok), r.self.compiles, u.ok)
                          EXCEPT !.removed =
                              {overrides[i] :
                                  i \in _find_override_by_id(overrides, id)}]
    /\ UNCHANGED <<cfg, cond_env, now>>

\* async_clear_overrides_service_handler
ClearOverrides ==
    /\ \E r \in {async_clear_overrides(Self, cfg, cond_env, now)} :
       \E u \in {then_update(r.self, cfg, cond_env, now)} :
           /\ Becomes(u.self)
           /\ last' = Last("clear_overrides", NoCall, Result(r.ok),
                           r.self.compiles, u.ok)
    /\ UNCHANGED <<cfg, cond_env, now>>

\* recalc_callback: an entity that condition "c" depends on changed
recalc_callback(env) ==
    /\ \E i \in 1..Len(cfg.events) : cfg.events[i].cond # None
    /\ env # cond_env
    /\ cond_env' = env
    /\ \E r \in {process_events(Self, cfg, env, now)} :
       \E u \in {then_update(r, cfg, env, now)} :
           /\ Becomes(u.self)
           /\ last' = Last("recalc_callback", NoCall, "None", r.compiles, u.ok)
    /\ UNCHANGED <<cfg, now>>

\* Home Assistant stops and starts again: the overrides are written to the
\* restore-state store at shutdown; async_setup_platform builds a new
\* ScheduleSensorData, the entity is updated and added, and async_added_to_hass
\* hands the stored overrides to async_update_config.
Restart ==
    /\ \E stored \in {[i \in 1..Len(overrides) |-> ToStored(overrides[i])] \o <<>>} :
       \E s \in {Setup(cfg, cond_env, now)} :
       \E r \in {IF s.self.raised THEN s
                ELSE async_update_config(s.self, cfg, cond_env, stored, now)} :
           /\ Becomes(r.self)
           /\ last' = [Last("restart", NoCall, "None", r.self.compiles,
                             s.ok /\ r.ok) EXCEPT !.stored = stored]
    /\ UNCHANGED <<cfg, cond_env, now>>

\* The entity is removed and added again while Home Assistant runs (the
\* integration is reloaded): the restore-state data of the removed entity is
\* handed back as extra_restore_state_data returned it, in native format.
Reload ==
    /\ \E stored \in {[i \in 1..Len(overrides) |-> ToNative(overrides[i])] \o <<>>} :
       \E s \in {Setup(cfg, cond_env, now)} :
       \E r \in {IF s.self.raised THEN s
                ELSE async_update_config(s.self, cfg, cond_env, stored, now)} :
           /\ Becomes(r.self)
           /\ last' = [Last("reload", NoCall, "None", r.self.compiles,
                             s.ok /\ r.ok) EXCEPT !.stored = stored]
    /\ UNCHANGED <<cfg, cond_env, now>>

\* Home Assistant starts with `stored` in its restore-state store
RestoreStored(stored) ==
    /\ \E s \in {Setup(cfg, cond_env, now)} :
       \E r \in {IF s.self.raised THEN s
                ELSE async_update_config(s.self, cfg, cond_env, stored, now)} :
           /\ Becomes(r.self)
           /\ last' = [Last("restore", NoCall, "None", r.self.compiles,
                             s.ok /\ r.ok) EXCEPT !.stored = stored]
    /\ UNCHANGED <<cfg, cond_env, now>>

Next ==
    \/ Advance
    \/ Poll
    \/ Recalculate
    \/ \E call \in OverrideCalls : SetOverride(call)
    \/ \E id \in RemoveIds : RemoveOverride(id)
    \/ ClearOverrides
    \/ \E env \in CondResults : recalc_callback(env)
    \/ Restart

Spec == Init /\ [][Next]_vars

\* The compilation study: the sensor is set up from one of CompileConfigs
\* and then polled, recalculated and recompiled by recalc_callback as time
\* passes and as the condition "c" changes, a condition that cannot be built
\* included; no override is set.
InitCompile ==
    /\ cfg \in CompileConfigs
    /\ InitSensor

NextCompile ==
    \/ Advance
    \/ Poll
    \/ Recalculate
    \/ \E env \in CompileCondResults : recalc_callback(env)

SpecCompile == InitCompile /\ [][NextCompile]_vars

\* The restore study: the sensor of the first configuration is polled as time
\* passes, overrides are set, and the sensor is restarted on what it stored,
\* reloaded, or started on one of StoredLists.
InitRestore ==
    /\ cfg \in {c \in Configs : c.events = EventsA}
    /\ InitSensor

NextRestore ==
    \/ Advance
    \/ Poll
    \/ \E call \in RestoreCalls : SetOverride(call)
    \/ Restart
    \/ Reload
    \/ \E stored \in StoredLists : RestoreStored(stored)

SpecRestore == InitRestore /\ [][NextRestore]_vars

\* The icon study: the sensor of IconConfigs is polled and recalculated as
\* time passes, and overrides are set, removed and cleared.
InitIcon ==
    /\ cfg \in IconConfigs
    /\ InitSensor

NextIcon ==
    \/ Advance
    \/ Poll
    \/ Recalculate
    \/ \E call \in IconCalls : SetOverride(call)
    \/ \E id \in AsyncRemoveIds : RemoveOverride(id)
    \/ ClearOverrides

SpecIcon == InitIcon /\ [][NextIcon]_vars

\* a native_value that always reads "on"
native_value_on(self) == STATE_ON

\* ScheduleSensor.native_value: self._state, which async_update sets to
\* data.value, or to the default state when that is None
native_value(self) == IF self.value = None THEN default_state ELSE self.value

\* The body of the three handlers below: when `guard` holds and there is a
\* new state, async_set_override("turn_on_off", new_state, None, None,
\* duration, None, None) and then async_update_ha_state(True); nothing
\* otherwise
TurnOnOff(op, guard, new_state, duration) ==
    /\ IF guard /\ new_state # None
       THEN \E call \in {Call("turn_on_off", new_state, NoTime, NoTime,
                               duration)} :
            \E r \in {async_set_override(Self, cfg, cond_env, call, now)} :
            \E u \in {then_update(r.self, cfg, cond_env, now)} :
                /\ Becomes(u.self)
                /\ last' = Last(op, call, Result(r.ok), r.self.compiles, u.ok)
       ELSE /\ Becomes(Self)
            /\ last' = Last(op, NoCall, "None", 0, TRUE)
    /\ UNCHANGED <<cfg, cond_env, now>>

async_turn_on_handler(duration) ==
    TurnOnOff("turn_on", STATE_ON \in known_states, STATE_ON, duration)

async_turn_off_handler(duration) ==
    TurnOnOff("turn_off", STATE_OFF \in known_states, STATE_OFF, duration)

async_toggle_handler(duration) ==
    TurnOnOff("toggle",
              STATE_OFF \in known_states /\ STATE_ON \in known_states,
              IF native_value(Self) = STATE_ON THEN STATE_OFF
              ELSE IF native_value(Self) = STATE_OFF THEN STATE_ON
              ELSE None,
              duration)

\* The switch study: the sensor of SwitchConfigs is polled as time passes and
\* the three services are called.
InitSwitch ==
    /\ cfg \in SwitchConfigs
    /\ InitSensor

NextSwitch ==
    \/ Advance
    \/ Poll
    \/ \E d \in SwitchDurations : async_turn_on_handler(d)
    \/ \E d \in SwitchDurations : async_turn_off_handler(d)
    \/ \E d \in SwitchDurations : async_toggle_handler(d)

SpecSwitch == InitSwitch /\ [][NextSwitch]_vars

\* The interleaving study.  process_events gives the event loop a chance to
\* run other coroutines at `await _async_process_cond` of an item that has a
\* condition.  A coroutine suspended there holds its local variables: the
\* partitions built so far (states, attrs) and the items of
\* `self.events + self.overrides`, a list built when its loop began, that
\* are still to be processed (items, the item with the condition first; from
\* is the self.overrides that list was built from).  known_states and
\* error_states are fields of self, which every coroutine resets and fills.
\* No item of this study meets an evaluation error.
Suspend(self, config, t) ==
    LET items == LayerItems(config.events, self.overrides)
        k == CHOOSE i \in 1..Len(items) :
                 /\ items[i].cond # None
                 /\ \A j \in 1..(i - 1) : items[j].cond = None
        empty == [states |-> <<>>,
                  attrs |-> [i \in 1..Len(config.extra_attributes) |-> <<>>]
                               \o <<>>,
                  extra_attributes |-> config.extra_attributes,
                  known_states |-> {default_state},
                  error_states |-> {},
                  force_refresh |-> self.force_refresh,
                  icon_map |-> self.icon_map,
                  raised |-> FALSE]
        seed == _add_interval(empty, config.extra_attributes, default_state,
                              closedopen(time_min, time_max))
    IN  CHOOSE out \in
          { [task |-> [states |-> acc.states, attrs |-> acc.attrs,
                       items |-> SubSeq(items, k, Len(items)),
                       from |-> self.overrides],
             self |-> [self EXCEPT
                          !.known_states = acc.known_states
                                           \cup {items[k].state},
                          !.error_states = acc.error_states,
                          !.icon_map = acc.icon_map]] :
            acc \in {ProcessAll(seed, SubSeq(items, 1, k - 1), t, "True",
                                config.allow_wrap)} } : TRUE

\* the rest of process_events once the coroutine `task` runs again, under
\* the condition results env
Finish(self, config, env, task, t) ==
    CHOOSE out \in
      { [self EXCEPT !._states = r.states,
                     !._custom_attributes = r.attrs,
                     !.known_states = r.known_states,
                     !.error_states = r.error_states,
                     !.force_refresh = r.force_refresh,
                     !.icon_map = r.icon_map,
                     !._refresh_time = t,
                     !.compiled_from = task.from,
                     !.compiles = @ + 1] :
        r \in {ProcessAll([states |-> task.states, attrs |-> task.attrs,
                           extra_attributes |-> config.extra_attributes,
                           known_states |-> self.known_states,
                           error_states |-> self.error_states,
                           force_refresh |-> self.force_refresh,
                           icon_map |-> self.icon_map,
                           raised |-> FALSE],
                          task.items, t, env, config.allow_wrap)} } : TRUE

\* a handler has called process_events on self, which runs up to the
\* condition and is suspended
Begin(self, op, arg) ==
    /\ Len(tasks) < MaxTasks
    /\ \E s \in {Suspend(self, cfg, now)} :
           /\ Assign(s.self)
           /\ tasks' = Append(tasks, s.task)
    /\ last' = Last(op, arg, "True", 0, TRUE)

\* recalc_callback, up to the condition
AsyncRecalc(env) ==
    /\ cond_env' = env
    /\ Begin(Self, "recalc_callback", NoCall)
    /\ UNCHANGED <<cfg, now>>

\* async_set_override: set_override, then process_events up to the condition
AsyncSetOverride(call) ==
    /\ \E r \in {set_override(Self, cfg, call.id, call.state, call.start,
                              call.end, call.duration, call.icon, now)} :
           /\ r.ok
           /\ Len(r.self.overrides) <= MaxOverrides
           /\ Begin(r.self, "set_override", call)
    /\ UNCHANGED <<cfg, cond_env, now>>

\* async_remove_override: remove_override, then process_events up to the
\* condition
AsyncRemoveOverride(id) ==
    /\ \E r \in {remove_override(Self, id)} :
           /\ r.ok
           /\ Begin(r.self, "remove_override", NoCall)
    /\ UNCHANGED <<cfg, cond_env, now>>

\* async_clear_overrides: clear_overrides, then process_events up to the
\* condition
AsyncClearOverrides ==
    /\ \E r \in {clear_overrides(Self)} :
           /\ r.ok
           /\ Begin(r.self, "clear_overrides", NoCall)
    /\ UNCHANGED <<cfg, cond_env, now>>

\* the event loop runs the suspended coroutine i: process_events finishes
\* and publishes, and the handler that called it goes on to async_update
Resume(i) ==
    /\ i \in 1..Len(tasks)
    /\ \E p \in {Finish(Self, cfg, cond_env, tasks[i], now)} :
       \E u \in {then_update(p, cfg, cond_env, now)} :
           /\ Assign(u.self)
           /\ last' = Last("process_events", NoCall, "None", 1, u.ok)
    /\ tasks' = RemoveAt(tasks, {i})
    /\ UNCHANGED <<cfg, cond_env, now>>

InitAsync ==
    /\ cfg \in AsyncConfigs
    /\ InitSensor

NextAsync ==
    \/ Poll
    \/ \E env \in AsyncCondResults : AsyncRecalc(env)
    \/ \E call \in AsyncCalls : AsyncSetOverride(call)
    \/ \E id \in AsyncRemoveIds : AsyncRemoveOverride(id)
    \/ AsyncClearOverrides
    \/ \E i \in 1..MaxTasks : Resume(i)

SpecAsync == InitAsync /\ [][NextAsync]_vars

\* ------------------------------------------------- the legacy module
\* src/sensor.py, the module of the first version: events only, no
\* overrides.  Its ScheduleSensorData is the record [states, refresh_time,
\* value]; times are whole seconds, so that an interval set is kept as the
\* set of the whole seconds it holds, in the closed-open form used above.

\* DEFAULT_STATE, CONF_REFRESH at its default and SCAN_INTERVAL
legacy_DEFAULT_STATE == "default"
legacy_refresh == Day
legacy_SCAN_INTERVAL == Minute

\* P.open(lower, upper): the whole seconds t with lower < t < upper
legacy_open(lower, upper) == closedopen(lower + 1, upper)

\* `not cond_func(variables)` is false: there is no condition, or every
\* check returned true (a check that raises ConditionError makes if_action
\* return False)
legacy_cond_holds(cond, env) == cond = None \/ env = "True"

\* the body of the loop of process_events for an event whose condition holds
legacy_add_event(states, event) ==
    LET state == event.state
        i == legacy_open(event.start, event.end)
        reduced == [j \in 1..Len(states) |->
                       IF states[j].label # state /\ IvOverlaps(i, states[j].iv)
                       THEN [states[j] EXCEPT
                                !.iv = IvDiff(@, IvInter(i, states[j].iv))]
                       ELSE states[j]] \o <<>>
    IN  IF state \notin Labels(reduced)
        THEN Append(reduced, [label |-> state, iv |-> i])
        ELSE [j \in 1..Len(reduced) |->
                 IF reduced[j].label = state
                 THEN [reduced[j] EXCEPT !.iv = IvUnion(@, i)]
                 ELSE reduced[j]] \o <<>>

\* process_events of the legacy ScheduleSensorData, at time t
legacy_process_events(self, events, env, t) ==
    LET F[k \in 0..Len(events)] ==
            IF k = 0 THEN <<>>
            ELSE IF legacy_cond_holds(events[k].cond, env)
            THEN legacy_add_event(F[k - 1], events[k])
            ELSE F[k - 1]
    IN  [self EXCEPT !.states = F[Len(events)], !.refresh_time = t]

\* update of the legacy ScheduleSensorData, at time t
legacy_update(self, events, env, t) ==
    LET nu == simple_time(TimeOf(t))
        fresh == IF t - self.refresh_time >= legacy_refresh
                 THEN legacy_process_events(self, events, env, t)
                 ELSE self
        hits == {j \in 1..Len(fresh.states) : Contains(fresh.states[j].iv, nu)}
    IN  [fresh EXCEPT !.value =
            IF hits = {} THEN None
            ELSE fresh.states[CHOOSE j \in hits : \A h \in hits : j <= h].label]

\* the state that async_update reports for data.value
legacy_native_value(v) == IF v = None THEN legacy_DEFAULT_STATE ELSE v

\* The events of the legacy study, on whole minutes from 09:15 on, the last
\* one with a condition and with the default end, time.max; a configuration
\* holds one event or two different ones in either order.
LegacyMinutes == 6
LegacyStart == HM(9, 15)
LegacyEventPool ==
    { Event("on", None, HM(9, 16), HM(9, 19), None),
      Event("away", None, HM(9, 17), HM(9, 21), None),
      Event("eco", None, HM(9, 15), HM(9, 17), None),
      Event("on", None, HM(9, 19), HM(9, 20), None),
      Event("night", "c", HM(9, 18), time_max, None) }
LegacyConfigs ==
    { [events |-> <<e>>] : e \in LegacyEventPool }
    \cup { [events |-> <<e[1], e[2]>>] :
              e \in {p \in LegacyEventPool \X LegacyEventPool : p[1] # p[2]} }
LegacyCondResults == {"True", "False", "None"}

\* the legacy sensor: the fields of the present module that it does not
\* have stay as they are created
LegacyBecomes(self) ==
    /\ _states' = self.states
    /\ _refresh_time' = self.refresh_time
    /\ value' = self.value
    /\ UNCHANGED <<cfg, cond_env, overrides, _custom_attributes, known_states,
                   error_states, force_refresh, icon_map, attributes,
                   compiled_from, tasks>>

\* async_setup_platform of the legacy module, then the first async_update
InitLegacy ==
    /\ cfg \in LegacyConfigs
    /\ cond_env \in LegacyCondResults
    /\ now = LegacyStart
    /\ \E r \in {legacy_update(
                     legacy_process_events(
                         [states |-> <<>>, refresh_time |-> NoTime,
                          value |-> None], cfg.events, cond_env, now),
                     cfg.events, cond_env, now)} :
           /\ _states = r.states
           /\ _refresh_time = r.refresh_time
           /\ value = r.value
    /\ overrides = <<>>
    /\ _custom_attributes = <<>>
    /\ known_states = {}
    /\ error_states = {}
    /\ force_refresh = NoTime
    /\ icon_map = {}
    /\ attributes = NoAttributes
    /\ compiled_from = <<>>
    /\ tasks = <<>>
    /\ last = Last("setup", NoCall, "None", 1, TRUE)

\* a scan interval passes
LegacyAdvance ==
    /\ now < LegacyStart + LegacyMinutes * Minute
    /\ now' = now + legacy_SCAN_INTERVAL
    /\ last' = Last("advance", NoCall, "None", 0, TRUE)
    /\ UNCHANGED <<cfg, cond_env, overrides, _states, _custom_attributes,
                   known_states, error_states, force_refresh, _refresh_time,
                   icon_map, value, attributes, compiled_from, tasks>>

\* a poll of the legacy entity: ScheduleSensor.async_update
LegacyPoll ==
    /\ \E r \in {legacy_update([states |-> _states,
                                 refresh_time |-> _refresh_time,
                                 value |-> value], cfg.events, cond_env, now)} :
           LegacyBecomes(r)
    /\ last' = Last("update", NoCall, "None", 0, TRUE)
    /\ now' = now

NextLegacy ==
    \/ LegacyAdvance
    \/ LegacyPoll

SpecLegacy == InitLegacy /\ [][NextLegacy]_vars

\* ================================================================ claims

\* ---- C1
\* the times of day at which membership in a partition can change: the start
\* of the day and every bound of an interval
Boundaries(states) ==
    {time_min} \cup
    {b \in UNION {{iv[1], iv[2]} :
                     iv \in UNION {states[i].iv : i \in 1..Len(states)}} :
        b < time_max}

\* the entries of the partition whose interval set contains t
Owners(states, t) == {i \in 1..Len(states) : Contains(states[i].iv, t)}

\* C1: after every compilation, reached through any sequence of service
\* calls, polls and restarts, the state partition is total and disjoint:
\* every interval lies within the day, every time of day (each cell between
\* two consecutive boundaries) is in exactly one label's interval set, no
\* label occurs twice, and no query has reached find_interval's assert False.
C1_PartitionTotalDisjoint ==
    /\ last.updated
    /\ \A i, j \in 1..Len(_states) :
           _states[i].label = _states[j].label => i = j
    /\ \A i \in 1..Len(_states) : \A iv \in _states[i].iv :
           time_min <= iv[1] /\ iv[1] < iv[2] /\ iv[2] <= time_max
    /\ \A t \in Boundaries(_states) : Cardinality(Owners(_states, t)) = 1

\* a partition of at least three labels, one of them owning two separate
\* intervals, compiled from two overrides by a set_override call
C1_Witness ==
    /\ last.op = "set_override" /\ last.result = "True"
    /\ Len(compiled_from) = 2
    /\ Len(_states) >= 3
    /\ \E i \in 1..Len(_states) : Cardinality(_states[i].iv) >= 2

\* ---- C2
\* the layers in the order of application: the configured events, then the
\* overrides that the published partition was compiled from
C2_Items ==
    cfg.events \o [i \in 1..Len(compiled_from) |->
                      OverrideAsEvent(compiled_from[i])]

\* item is applied (not skipped, not failed) and its layer contains t; the
\* modelled configurations carry no offsets
C2_Covers(item, t) ==
    LET s == IF item.start = NoTime THEN time_min ELSE item.start
        e == IF item.end = NoTime THEN time_max ELSE item.end
        wrap == IF item.allow_wrap = None THEN cfg.allow_wrap
                ELSE item.allow_wrap = "True"
    IN  /\ item.state # TemplateFailed
        /\ item.cond = None \/ cond_env = "True"
        /\ item.start # BadTime /\ item.end # BadTime
        /\ \/ s <= t /\ t < e
           \/ e < s /\ wrap /\ (s <= t \/ t < e)

\* the label of the last applied layer that contains t; the full-day default
\* layer is applied first
C2_LastWriter(t) ==
    LET hits == {i \in 1..Len(C2_Items) : C2_Covers(C2_Items[i], t)}
    IN  IF hits = {} THEN default_state
        ELSE C2_Items[CHOOSE i \in hits : \A j \in hits : j <= i].state

\* the boundaries of the partition and of every layer
C2_Times ==
    Boundaries(_states) \cup
    {t \in UNION {{C2_Items[i].start, C2_Items[i].end} :
                     i \in 1..Len(C2_Items)} : time_min <= t /\ t < time_max}

\* C2: last write wins: the label that owns a time of day in the compiled
\* partition is the label of the last applied layer containing it, the
\* layers being the default state, then the events in declaration order,
\* then the overrides in store order, skipped items excluded.
C2_LastWriteWins ==
    \A t \in C2_Times : find_interval(_states, t).state = C2_LastWriter(t)

\* two events and two overrides of different labels all contain 10:00, and
\* the second override owns it
C2_Witness ==
    /\ cfg.events = EventsA
    /\ Len(compiled_from) = 2
    /\ compiled_from[1].state # compiled_from[2].state
    /\ \A i \in 1..Len(C2_Items) : C2_Covers(C2_Items[i], HM(10, 0))
    /\ find_interval(_states, HM(10, 0)).state = compiled_from[2].state

\* ---- C3
\* C3: once update has run at a time after an override's expires, the state,
\* the interval and the next state it reports are those of a partition
\* without that override's layer, that is, of the partition compiled from
\* the store that update has just swept.
C3_QueryWithoutExpired ==
    (last.op = "update" /\ last.updated) =>
        \E f \in {Query(process_events(Self, cfg, cond_env, now), cfg, now).self} :
            value = f.value /\ attributes = f.attributes

\* ---- C4
\* C4: expired overrides are swept by every compilation and every query:
\* after a call that ran process_events and update at `now`, no override that
\* expired before `now` is in the store or has contributed a layer to the
\* partition.
C4_CompileSweepsExpired ==
    (last.op # "advance" /\ last.compiles > 0) =>
        /\ \A i \in 1..Len(overrides) : overrides[i].expires >= now
        /\ \A i \in 1..Len(compiled_from) : compiled_from[i].expires >= now

\* ---- C5
\* the record that an accepted call c stores
C5_Record(c) ==
    LET r == ResolveOverride(cfg, c.start, c.end, c.duration, now)
    IN  Override(c.id, c.state, TimeOf(r.start), TimeOf(r.end),
                 r.end + ExpiryMargin, IF r.allow_wrap THEN "True" ELSE None)

\* the store after call c: the record takes the place of the first record
\* with its id, or goes to the end when there is none or the id is None
C5_Expected(old, c) ==
    LET same == {i \in 1..Len(old) : c.id # None /\ old[i].id = c.id}
    IN  IF same = {} THEN Append(old, C5_Record(c))
        ELSE [i \in 1..Len(old) |->
                 IF i = CHOOSE k \in same : \A j \in same : k <= j
                 THEN C5_Record(c) ELSE old[i]] \o <<>>

\* C5: an accepted set_override with the id of a stored override puts the
\* new record at that override's position and leaves every other override
\* where it was; with an id that matches nothing, or with no id, the record
\* is appended.  (The update that closes the service call then drops what
\* has expired.)
C5_ReplaceInPlace ==
    [][(last'.op = "set_override" /\ last'.result = "True") =>
          overrides' = Unexpired(C5_Expected(overrides, last'.arg), now)]_vars

\* set_override for "a" has just been accepted and "a" stands ahead of an
\* anonymous override: "a" was stored already and has been replaced in place
C5_Witness ==
    /\ last.op = "set_override" /\ last.result = "True" /\ last.arg.id = "a"
    /\ Len(overrides) = 2
    /\ overrides[1].id = "a" /\ overrides[1].state = last.arg.state
    /\ overrides[2].id = None

\* ---- C6
\* C6: remove_override with an id that no stored override carries (None
\* included) returns False, leaves the overrides as they are and runs no
\* compilation; with an id that is stored it returns True and no override
\* with that id remains.  (The update that closes the service call then
\* drops what has expired.)
C6_RemoveOverride ==
    [][last'.op = "remove_override" =>
          IF \E i \in 1..Len(overrides) :
                 last'.arg.id # None /\ overrides[i].id = last'.arg.id
          THEN /\ last'.result = "True"
               /\ \A i \in 1..Len(overrides') :
                      overrides'[i].id # last'.arg.id
          ELSE /\ last'.result = "False"
               /\ last'.compiles = 0
               /\ overrides' = Unexpired(overrides, now)]_vars

\* the removal of an id that is not stored has failed on a store of two
C6_Witness ==
    /\ last.op = "remove_override" /\ last.result = "False"
    /\ last.arg.id = "b"
    /\ Len(overrides) = 2

\* ---- C7
\* C7: in every reachable state the store holds at most one override for
\* each id other than None.
C7_OneOverridePerId ==
    \A i, j \in 1..Len(overrides) :
        (overrides[i].id # None /\ overrides[i].id = overrides[j].id) => i = j

\* the overrides restored by async_update_config, one of them with an id
C7_Witness ==
    /\ last.op = "restart"
    /\ Len(overrides) = 2
    /\ \E i \in 1..Len(overrides) : overrides[i].id = "a"

\* ---- C8
\* which of start, end and duration a call gives
Shape(c) == <<c.start # NoTime, c.end # NoTime, c.duration # NoTime>>

\* none of the three, all three, start alone
InvalidShapes ==
    {<<FALSE, FALSE, FALSE>>, <<TRUE, TRUE, TRUE>>, <<TRUE, FALSE, FALSE>>}

\* the times of day that the call c resolves to
ResolvedStart(c) ==
    TimeOf(ResolveOverride(cfg, c.start, c.end, c.duration, now).start)
ResolvedEnd(c) ==
    TimeOf(ResolveOverride(cfg, c.start, c.end, c.duration, now).end)

\* C8: set_override with none of start / end / duration, with all three, or
\* with start alone is rejected; a rejected call leaves the store as it is
\* and async_set_override runs no compilation; every other shape is
\* resolved, and is rejected only when the resolved end is not after the
\* resolved start.  (The update that closes the service call then drops
\* what has expired.)
C8_InvalidShapesRejected ==
    [][last'.op = "set_override" =>
          /\ Shape(last'.arg) \in InvalidShapes => last'.result = "False"
          /\ last'.result = "False" =>
                 /\ last'.compiles = 0
                 /\ overrides' = Unexpired(overrides, now)
          /\ last'.result = "True" => last'.compiles = 1
          /\ (Shape(last'.arg) \notin InvalidShapes /\ last'.result = "False")
                 => ResolvedEnd(last'.arg) <= ResolvedStart(last'.arg)]_vars

\* a call with start alone has been rejected on a store that holds overrides
C8_Witness ==
    /\ last.op = "set_override" /\ last.result = "False"
    /\ Shape(last.arg) = <<TRUE, FALSE, FALSE>>
    /\ Len(overrides) > 0

\* ---- C9
\* wraparound is permitted for the call: always, but for start + end, where
\* the sensor's allow_wrap decides
WrapPermitted(c) ==
    IF Shape(c) = <<TRUE, TRUE, FALSE>> THEN cfg.allow_wrap ELSE TRUE

\* C9 as claimed: when the resolved end is at or before the resolved start,
\* the call is accepted if wraparound is permitted for it and fails
\* otherwise.
C9_WrapAcceptedWhenPermitted ==
    (/\ last.op = "set_override"
     /\ Shape(last.arg) \notin InvalidShapes
     /\ ResolvedEnd(last.arg) <= ResolvedStart(last.arg))
        => (last.result = "True" <=> WrapPermitted(last.arg))

\* C9: when the resolved end is before the resolved start, the call is
\* accepted if wraparound is permitted for it and fails otherwise; when the
\* resolved end equals the resolved start the call fails, permitted or not.
C9_WrapAcceptedUnlessEqual ==
    (last.op = "set_override" /\ Shape(last.arg) \notin InvalidShapes) =>
        /\ ResolvedEnd(last.arg) < ResolvedStart(last.arg)
               => (last.result = "True" <=> WrapPermitted(last.arg))
        /\ ResolvedEnd(last.arg) = ResolvedStart(last.arg)
               => last.result = "False"

\* a start + end call whose end is before its start has been refused by a
\* sensor that does not allow wraparound
C9_Witness ==
    /\ last.op = "set_override" /\ last.result = "False"
    /\ Shape(last.arg) = <<TRUE, TRUE, FALSE>>
    /\ ~ cfg.allow_wrap
    /\ ResolvedEnd(last.arg) < ResolvedStart(last.arg)

\* ---- C10
\* the next occurrence of the time of day t: today when the hour of `now` is
\* at most the hour of t, tomorrow otherwise
NextOccurrence(t) ==
    (IF HourOf(now) <= HourOf(t) THEN DateOf(now) ELSE DateOf(now) + 1) * Day + t

\* the timestamps [start, end] that a call with a start or an end stands for
C10_Expected(c) ==
    IF c.start # NoTime /\ c.end # NoTime
    THEN [start |-> NextOccurrence(c.start), end |-> NextOccurrence(c.end)]
    ELSE IF c.start # NoTime
    THEN [start |-> NextOccurrence(c.start),
          end |-> NextOccurrence(c.start) + c.duration * 60]
    ELSE IF c.duration # NoTime
    THEN [start |-> NextOccurrence(c.end) - c.duration * 60,
          end |-> NextOccurrence(c.end)]
    ELSE [start |-> now - (now % 60), end |-> NextOccurrence(c.end)]

C11_DurationOnly ==
    (/\ last.op = "set_override" /\ last.result = "True"
     /\ Shape(last.arg) = <<FALSE, FALSE, TRUE>>)
        => \E i \in 1..Len(overrides) :
               /\ overrides[i].id = last.arg.id
               /\ overrides[i].state = last.arg.state
               /\ overrides[i].start = (now - (now % 60)) % Day
               /\ overrides[i].end =
                      (now - (now % 60) + last.arg.duration * 60) % Day

\* at 10:00, duration = 30 has been stored as 10:00 to 10:30
C11_Witness ==
    /\ now = HM(10, 0)
    /\ last.op = "set_override" /\ last.result = "True"
    /\ Shape(last.arg) = <<FALSE, FALSE, TRUE>> /\ last.arg.duration = 30
    /\ \E i \in 1..Len(overrides) :
           overrides[i].start = HM(10, 0) /\ overrides[i].end = HM(10, 30)

\* ---- C12
\* the timestamp at which the override of call c ends
C12_End(c) ==
    IF c.start = NoTime /\ c.end = NoTime
    THEN now - (now % 60) + c.duration * 60
    ELSE C10_Expected(c).end

\* C12: the override that an accepted set_override stores expires 30 seconds
\* after the timestamp at which it ends, for every shape of the call, whether
\* the times of day wrap past midnight or not (unless that is already past,
\* and the closing update has dropped the override).
C12_ExpiresAfterEnd ==
    (/\ last.op = "set_override" /\ last.result = "True"
     /\ C12_End(last.arg) + 30 > now)
        => \E i \in 1..Len(overrides) :
               /\ overrides[i].id = last.arg.id
               /\ overrides[i].state = last.arg.state
               /\ overrides[i].end = C12_End(last.arg) % Day
               /\ overrides[i].expires = C12_End(last.arg) + 30

\* at 23:50 a duration of 30 minutes has been stored as 23:50 to 00:20, and
\* expires at 00:20:30 of the next day
C12_Witness ==
    /\ now = HM(23, 50)
    /\ last.op = "set_override" /\ last.result = "True"
    /\ Shape(last.arg) = <<FALSE, FALSE, TRUE>>
    /\ \E i \in 1..Len(overrides) :
           /\ overrides[i].start = HM(23, 50)
           /\ overrides[i].end = HM(0, 20)
           /\ overrides[i].expires = Day + HM(0, 20) + 30

\* ---- C13
\* event k of the configuration is processed (its condition passes) and its
\* start is later than its end
C13_Wraps(k) ==
    LET ev == cfg.events[k]
    IN  /\ ev.state # TemplateFailed
        /\ ev.cond = None \/ cond_env = "True"
        /\ ev.start >= time_min /\ ev.end >= time_min
        /\ ev.start > ev.end

\* wrapping is allowed for event k: its own allow_wrap, else the global one
C13_Allowed(k) ==
    IF cfg.events[k].allow_wrap = None THEN cfg.allow_wrap
    ELSE cfg.events[k].allow_wrap = "True"

\* no other item names the label of event k
C13_OnlyItemOfLabel(k) ==
    \A j \in 1..Len(C2_Items) : j # k => C2_Items[j].state # cfg.events[k].state

\* a layer applied after event k contains t
C13_Later(k, t) ==
    \E j \in (k + 1)..Len(C2_Items) : C2_Covers(C2_Items[j], t)

\* C13: a configured event whose resolved start is later than its end
\* contributes, when wrapping is allowed for it, exactly the two layers
\* [start, END_OF_DAY) and [START_OF_DAY, end) under its label (its label
\* owns exactly the times of these two intervals that no later layer
\* contains, and is not an error state); when wrapping is not allowed it
\* contributes no layer at all and its label is in error_states.
C13_WrapSplit ==
    \A k \in 1..Len(cfg.events) :
        (C13_Wraps(k) /\ C13_OnlyItemOfLabel(k)) =>
            LET ev == cfg.events[k]
            IN  IF C13_Allowed(k)
                THEN /\ ev.state \notin error_states
                     /\ \A t \in C2_Times :
                            (find_interval(_states, t).state = ev.state)
                                <=> /\ ev.start <= t \/ t < ev.end
                                    /\ ~C13_Later(k, t)
                ELSE /\ ev.state \in error_states
                     /\ ev.state \in known_states
                     /\ \A i \in 1..Len(_states) :
                            _states[i].label = ev.state => _states[i].iv = {}

\* the event "sleep" from 23:00 to 01:00, allowed to wrap, owns both
\* [23:00, END_OF_DAY) and [START_OF_DAY, 01:00)
C13_Witness ==
    /\ cfg.events = EventsC
    /\ \E i \in 1..Len(_states) :
           /\ _states[i].label = "sleep"
           /\ _states[i].iv = closedopen(HM(23, 0), time_max)
                                   \cup closedopen(time_min, HM(1, 0))

\* the same event without allow_wrap, under a global allow_wrap of False, is
\* an error state and owns nothing
C13_WitnessRefused ==
    /\ cfg.events = EventsD
    /\ "sleep" \in error_states
    /\ \A i \in 1..Len(_states) : _states[i].label # "sleep"

\* ---- C14
\* the times of day at which the partition, a layer, or an override that
\* has just been removed begins or ends
C14_Times ==
    C2_Times \cup UNION {{r.start, r.end} : r \in last.removed}

\* C14: an accepted override that wraps past midnight (start later than end)
\* is applied and removed as a whole.  In every reachable state both halves
\* [start, END_OF_DAY) and [START_OF_DAY, end) of each such override that the
\* partition was compiled from are applied (its label owns every time of
\* both that no later layer contains); and when remove_override(id) has
\* returned True and the partition has been recompiled, no override with
\* that id is stored or compiled in, and every time of day is owned by the
\* last of the remaining layers that contains it.
C14_WrapRemovedWhole ==
    /\ \A k \in 1..Len(compiled_from) :
           LET o == compiled_from[k]
           IN  o.start > o.end =>
                   \A t \in C2_Times :
                       (/\ o.start <= t \/ t < o.end
                        /\ ~C13_Later(Len(cfg.events) + k, t))
                           => find_interval(_states, t).state = o.state
    /\ (last.op = "remove_override" /\ last.result = "True") =>
           /\ \A i \in 1..Len(overrides) : overrides[i].id # last.arg.id
           /\ \A i \in 1..Len(compiled_from) :
                  compiled_from[i].id # last.arg.id
           /\ \A t \in C14_Times :
                  find_interval(_states, t).state = C2_LastWriter(t)

\* the override "a" from 23:00 to 10:15 with the label "on" has been
\* removed, and neither 23:00 nor the start of the day is "on" any more
C14_Witness ==
    /\ last.op = "remove_override" /\ last.result = "True"
    /\ \E r \in last.removed :
           /\ r.start = HM(23, 0) /\ r.end = HM(10, 15) /\ r.state = "on"
           /\ find_interval(_states, r.start).state # "on"
           /\ find_interval(_states, time_min).state # "on"

\* ---- C15
\* the layers (label, interval) of the default state and of every item whose
\* times resolve, wrapping items included
C15_Layers ==
    {<<default_state, closedopen(time_min, time_max)>>} \cup
    UNION {{<<C2_Items[k].state, iv>> :
               iv \in {closedopen(C2_Items[k].start, C2_Items[k].end),
                       closedopen(C2_Items[k].start, time_max),
                       closedopen(time_min, C2_Items[k].end)} \ {{}}} :
           k \in {j \in 1..Len(C2_Items) :
                     /\ C2_Items[j].state # TemplateFailed
                     /\ C2_Items[j].start >= time_min
                     /\ C2_Items[j].end >= time_min}}

C16_Exact(i, iv, t) ==
    /\ iv \in _states[i].iv
    /\ iv[1] <= t /\ t < iv[2]
    /\ \A other \in _states[i].iv \ {iv} : other[2] < iv[1] \/ iv[2] < other[1]
    /\ \A j \in 1..Len(_states) : j # i => ~Contains(_states[j].iv, t)

\* the end that a query reports for the interval iv of entry i: its upper
\* bound, or, when it ends at END_OF_DAY and the same label owns
\* START_OF_DAY, the upper bound of the interval that begins the day
C16_End(i, iv) ==
    IF iv[2] = time_max /\ Contains(_states[i].iv, time_min)
    THEN (CHOOSE first \in _states[i].iv : first[1] = time_min)[2]
    ELSE iv[2]

\* C16: find_interval(partition, t) returns the label whose interval set
\* contains t together with the exact contiguous interval [lower, upper) of
\* that label with lower <= t < upper; and after a query at `now` the state
\* is that label, start is the lower bound of that interval and end its upper
\* bound, or the end of the joined interval when it ends at END_OF_DAY.
C16_ActiveInterval ==
    /\ \A t \in C2_Times :
       \E r \in {find_interval(_states, t)} :
           /\ r.found
           /\ \E i \in 1..Len(_states) :
                  /\ _states[i].label = r.state
                  /\ C16_Exact(i, <<r.lower, r.upper>>, t)
    /\ (last.op # "advance" /\ last.updated) =>
           \E i \in 1..Len(_states) : \E iv \in _states[i].iv :
               /\ C16_Exact(i, iv, TimeOf(now) - (TimeOf(now) % 60))
               /\ value = _states[i].label
               /\ attributes.start = iv[1]
               /\ attributes.end = C16_End(i, iv)

\* at 10:00 the state is "off" from 10:00 to 10:30, the middle one of the
\* three intervals that "off" owns
C16_Witness ==
    /\ now = HM(10, 0) /\ last.op # "advance"
    /\ value = "off"
    /\ attributes.start = HM(10, 0) /\ attributes.end = HM(10, 30)
    /\ \E i \in 1..Len(_states) :
           _states[i].label = "off" /\ Cardinality(_states[i].iv) = 3

\* ---- C17
\* C17: end-of-day join.  When the interval of the current state ends at
\* END_OF_DAY and the label that owns START_OF_DAY is the current label, the
\* reported end is the upper bound of the interval that starts at
\* START_OF_DAY, and, when that interval does not span the whole day, the
\* reported next_state is the label that follows it (the owner of its upper
\* bound), which is not the current label.
C17_JoinReportsFollowing ==
    (last.op # "advance" /\ last.updated) =>
        \A i \in 1..Len(_states) : \A iv \in _states[i].iv :
            (/\ C16_Exact(i, iv, TimeOf(now) - (TimeOf(now) % 60))
             /\ iv[2] = time_max
             /\ Contains(_states[i].iv, time_min)) =>
                \E first \in {v \in _states[i].iv : v[1] = time_min} :
                    /\ attributes.end = first[2]
                    /\ first[2] < time_max =>
                           /\ attributes.next_state =
                                  find_interval(_states, first[2]).state
                           /\ attributes.next_state # value

\* ---- C18
\* what C18 says of a query at `now`, the probe being `step` seconds after
\* the upper bound of the current interval
C18_Probe(step) ==
    (last.op # "advance" /\ last.updated) =>
        \A i \in 1..Len(_states) : \A iv \in _states[i].iv :
            C16_Exact(i, iv, TimeOf(now) - (TimeOf(now) % 60)) =>
                /\ iv[2] # time_max =>
                       /\ attributes.end = iv[2]
                       /\ attributes.next_state =
                              find_interval(_states, (iv[2] + step) % Day).state
                /\ (iv[2] = time_max /\ ~Contains(_states[i].iv, time_min)) =>
                       /\ attributes.end = time_max
                       /\ attributes.next_state =
                              find_interval(_states, time_min).state

\* C18 as stated: for a current interval whose upper bound is not END_OF_DAY,
\* next_state is the label owning the instant one minute after that upper
\* bound; for an interval ending at END_OF_DAY whose START_OF_DAY label
\* differs from the current label, next_state is that START_OF_DAY label and
\* end is left at END_OF_DAY.
C18_ProbeOneMinute == C18_Probe(Minute)

\* C18, amended: for a current interval whose upper bound is not END_OF_DAY,
\* next_state is the label owning the instant one second after that upper
\* bound; for an interval ending at END_OF_DAY whose START_OF_DAY label
\* differs from the current label, next_state is that START_OF_DAY label and
\* end is left at END_OF_DAY.
C18_ProbeOneSecond == C18_Probe(1)

\* "on" ends at 12:00 and the thirty seconds of "blip" follow: next_state is
\* "blip", while 12:01 belongs to "off"
C18_Witness ==
    /\ last.op # "advance"
    /\ value = "on" /\ attributes.end = HM(12, 0)
    /\ attributes.next_state = "blip"
    /\ find_interval(_states, HM(12, 1)).state = "off"

\* "on" ends at END_OF_DAY and "sleep" owns START_OF_DAY: next_state is
\* "sleep" and end stays at END_OF_DAY
C18_WitnessDirect ==
    /\ last.op # "advance"
    /\ value = "on" /\ attributes.end = time_max
    /\ attributes.next_state = "sleep"

\* ---- C19
\* a compilation under the condition results env meets an evaluation error:
\* an event's condition raises, or the start or end of an event whose
\* condition passes cannot be resolved (the overrides raise none)
C19_EvaluationError(env) ==
    \E k \in 1..Len(cfg.events) :
        LET ev == cfg.events[k]
        IN  /\ ev.state # TemplateFailed
            /\ \/ ev.cond # None /\ env = "None"
               \/ /\ ev.cond = None \/ env = "True"
                  /\ ev.start = BadTime \/ ev.end = BadTime

\* C19: after every compilation in which a rule hit an evaluation error, a
\* compilation run by update as a periodic or forced refresh included, a
\* forced-refresh deadline no later than minutes_to_refresh_on_error after
\* that compilation is pending.  (The published partition is always the one
\* compiled at _refresh_time under the current condition results.)
C19_RetryPending ==
    C19_EvaluationError(cond_env) =>
        /\ force_refresh # NoTime
        /\ force_refresh <= _refresh_time + 5 * 60

\* ---- C20
\* the deadline pending after the process_events run of a call, if it ran
\* one: the sooner of the pending deadline and five minutes from `now` when
\* the compilation met an evaluation error, the pending deadline otherwise
C20_AfterCompile(pending, compiled) ==
    IF compiled /\ C19_EvaluationError(cond_env')
    THEN IF pending # NoTime /\ pending < now + 5 * 60
         THEN pending
         ELSE now + 5 * 60
    ELSE pending

\* the deadline pending after the update that ends the call: none when the
\* refresh fires, periodic (six hours after the last compilation) or forced
\* (the deadline is past)
C20_AfterUpdate(pending, compiled) ==
    IF \/ ~compiled /\ now - _refresh_time >= 6 * Hour
       \/ pending # NoTime /\ now > pending
    THEN NoTime
    ELSE pending

\* C20: the pending forced-refresh deadline is the minimum of the deadline
\* already pending and each new candidate, now + the retry delay: a
\* compilation error never moves a pending deadline later; and once a refresh
\* fires in update, periodic or forced, no deadline is pending.  (A restart
\* begins with no deadline pending.)
C20_DeadlineIsMinimum ==
    [][last'.op # "advance" =>
          LET pending == IF last'.op = "restart" THEN NoTime ELSE force_refresh
              compiled == last'.compiles > 0
          IN  /\ force_refresh' =
                     C20_AfterUpdate(C20_AfterCompile(pending, compiled),
                                     compiled)
              /\ (pending # NoTime /\ force_refresh' # NoTime) =>
                     force_refresh' = pending]_vars

\* a compilation at 10:18 met an evaluation error while the deadline of
\* 10:20:20 was pending, and the deadline has stayed at 10:20:20
C20_Witness ==
    /\ now = HM(10, 18)
    /\ last.op = "recalculate" /\ last.compiles = 1
    /\ C19_EvaluationError(cond_env)
    /\ force_refresh = HM(10, 20) + 20

\* a forced refresh has fired in update while the error persists, and no
\* deadline is pending
C20_WitnessCleared ==
    /\ last.op = "update" /\ _refresh_time = now
    /\ C19_EvaluationError(cond_env)
    /\ force_refresh = NoTime

\* ---- C21
\* C21: an event rejected because its start is later than its end while
\* wrapping is not allowed is handled as the evaluation errors are: a
\* compilation that meets it puts its label in error_states and sets a
\* forced-refresh deadline, five minutes from now or the pending one when
\* that is sooner.
C21_WrapRefusalRetries ==
    \A k \in 1..Len(cfg.events) :
        (C13_Wraps(k) /\ ~C13_Allowed(k)) =>
            \A p \in {process_events(Self, cfg, cond_env, now)} :
                /\ cfg.events[k].state \in p.error_states
                /\ p.force_refresh # NoTime
                /\ p.force_refresh <= now + 5 * 60
                /\ force_refresh # NoTime => p.force_refresh <= force_refresh

\* ---- C22
\* the event k of the configuration meets a resolution failure in a
\* compilation under the condition results env: its state label does not
\* render, or, its condition having passed, its start, its end or one of its
\* offsets cannot be resolved
C22_ResolutionFails(k, env) ==
    LET ev == cfg.events[k]
    IN  \/ ev.state = TemplateFailed
        \/ /\ ev.cond = None \/ env = "True"
           /\ \/ ev.start = BadTime \/ ev.end = BadTime
              \/ ev.start_offset = BadOffset \/ ev.end_offset = BadOffset

\* C22: every resolution failure met during a compilation, the failure to
\* resolve the state label of an event included, is a soft error: the event
\* adds no layer and a forced-refresh deadline no later than five minutes
\* from now is pending after the compilation.
C22_ResolutionFailureRetries ==
    \A k \in 1..Len(cfg.events) :
        C22_ResolutionFails(k, cond_env) =>
            \A p \in {process_events(Self, cfg, cond_env, now)} :
                /\ p.force_refresh # NoTime
                /\ p.force_refresh <= now + 5 * 60
                /\ \A i \in 1..Len(p._states) :
                       p._states[i].label # cfg.events[k].state

\* ---- C23
\* a compilation under the condition results env skips the event: its
\* condition is false or indeterminate, its start, end or an offset cannot
\* be resolved, or its start is later than its end while wrapping is not
\* allowed for it
C23_Skipped(ev, env) ==
    \/ ev.cond # None /\ env \in {"False", "None"}
    \/ ev.start = BadTime \/ ev.end = BadTime
    \/ ev.start_offset = BadOffset \/ ev.end_offset = BadOffset
    \/ /\ apply_offset(get_start(ev), ev.start_offset)
             > apply_offset(get_end(ev), ev.end_offset)
       /\ ~(IF ev.allow_wrap = None THEN cfg.allow_wrap
                                    ELSE ev.allow_wrap = "True")

\* the events of the configuration that env does not skip, in order
C23_Kept(env) == SelectSeq(cfg.events, LAMBDA ev : ~C23_Skipped(ev, env))

\* C23: skipped and failed items never alter the partitions: the state
\* partition and the attribute partitions that a compilation produces are
\* those that the same compilation produces from the input without the
\* items it skips.
C23_SkippedItemsLeaveNoTrace ==
    \A p \in {process_events(Self, cfg, cond_env, now)} :
        \A q \in {process_events(Self, [cfg EXCEPT !.events = C23_Kept(cond_env)],
                                  cond_env, now)} :
            /\ p._states = q._states
            /\ p._custom_attributes = q._custom_attributes

\* "away" has just been skipped on a false condition in a configuration with
\* the attribute "mode": both partitions are those of "on" alone
C23_Witness ==
    /\ last.op = "recalc_callback" /\ cond_env = "False"
    /\ Len(cfg.events) = 2
    /\ cfg.events[1].state = "on" /\ cfg.events[2].state = "away"
    /\ C23_Skipped(cfg.events[2], cond_env)
    /\ _states = << [label |-> "off",
                     iv |-> closedopen(time_min, HM(8, 0))
                            \cup closedopen(HM(12, 0), time_max)],
                    [label |-> "on", iv |-> closedopen(HM(8, 0), HM(12, 0))] >>
    /\ _custom_attributes =
           << << [label |-> "std",
                  iv |-> closedopen(time_min, HM(8, 0))
                         \cup closedopen(HM(12, 0), time_max)],
                 [label |-> "eco", iv |-> closedopen(HM(8, 0), HM(12, 0))] >> >>

\* ---- C24
\* a compilation under the condition results env finds the event bad: its
\* condition cannot be built or raises, or one of its times cannot be
\* resolved
C24_Bad(ev, env) ==
    \/ ev.cond # None /\ env \in {Invalid, "None"}
    \/ ev.start = BadTime \/ ev.end = BadTime
    \/ ev.start_offset = BadOffset \/ ev.end_offset = BadOffset

\* C24: one bad rule never aborts the compilation: whatever event has an
\* invalid or erroring condition or an unresolvable time, process_events
\* completes and publishes, at now, the partition in which all the other
\* events and overrides are applied.
C24_BadRuleIsLocal ==
    \A p \in {process_events(Self, cfg, cond_env, now)} :
        \A q \in {process_events(
                      Self,
                      [cfg EXCEPT !.events =
                          SelectSeq(cfg.events,
                                    LAMBDA ev : ~C24_Bad(ev, cond_env))],
                      cond_env, now)} :
            /\ ~p.raised
            /\ p._refresh_time = now
            /\ p._states = q._states

\* ---- C25
\* the published partitions are those of a compilation under the current
\* condition results: no compilation has been aborted since
C25_Compiled ==
    ~(cond_env = Invalid /\ \E k \in 1..Len(cfg.events) :
                               /\ cfg.events[k].cond # None
                               /\ cfg.events[k].state # TemplateFailed)

\* the event is applied and one of its layers contains t
C25_Covers(ev, t) ==
    LET s == apply_offset(get_start(ev), ev.start_offset)
        e == apply_offset(get_end(ev), ev.end_offset)
    IN  /\ ev.state # TemplateFailed
        /\ ~C23_Skipped(ev, cond_env)
        /\ \/ s <= t /\ t < e
           \/ e < s /\ (s <= t \/ t < e)

\* the value of the extra attribute i that the owner of t in the state
\* partition gives: the value of the last applied event that contains t, the
\* configured default of the attribute when that event gives none or when
\* the default layer owns t
C25_OwnerValue(i, t) ==
    LET key == cfg.extra_attributes[i][1]
        dv == cfg.extra_attributes[i][2]
        hits == {k \in 1..Len(cfg.events) : C25_Covers(cfg.events[k], t)}
        owner == CHOOSE k \in hits : \A j \in hits : j <= k
        given == Get(cfg.events[owner].extra, key)
    IN  IF hits = {} THEN dv
        ELSE IF given \in {None, TemplateFailed} THEN dv
        ELSE given

\* the times of day at which the partitions are compared
C25_Times ==
    {time_min, HM(0, 30), HM(1, 0), HM(8, 0), HM(9, 0), HM(9, 30), HM(10, 0),
     HM(11, 0), HM(12, 0), HM(13, 0), HM(14, 0), HM(23, 0), HM(23, 30)}

\* C25: the attribute axes follow the layering of the state axis: for every
\* extra attribute and every time of day t, the value that owns t in the
\* attribute's partition, which is the value update reports at t, is the
\* value given by the item that owns t in the state partition, or the
\* default of the attribute when that item gives none (no value owning t
\* when that default is null).
C25_AttributesFollowStates ==
    C25_Compiled =>
        \A i \in 1..Len(cfg.extra_attributes) :
            /\ \A t \in C25_Times :
                   find_interval(_custom_attributes[i], t).state
                       = C25_OwnerValue(i, t)
            /\ (last.op # "advance" /\ last.updated) =>
                   /\ Len(attributes.extra) = Len(cfg.extra_attributes)
                   /\ attributes.extra[i][2]
                          = C25_OwnerValue(i, simple_time(TimeOf(now)))

\* ---- C26
\* C26: every attribute partition covers the full day: whatever the default
\* of an extra attribute, a null default included, exactly one value owns
\* each time of day in its published partition, and no update stops at the
\* assert of a per-attribute find_interval.
C26_AttributePartitionsCover ==
    /\ \A i \in 1..Len(cfg.extra_attributes) :
           \A t \in C25_Times :
               Cardinality({j \in 1..Len(_custom_attributes[i]) :
                               Contains(_custom_attributes[i][j].iv, t)}) = 1
    /\ (last.op # "advance" /\ ~last.updated) =>
           ~find_interval(_states, simple_time(TimeOf(now))).found

\* ---- C30
\* event k of the configuration is degenerate in a compilation under the
\* current condition results: it is processed, its times resolve, and its
\* resolved start equals its resolved end
C30_Degenerate(k) ==
    LET ev == cfg.events[k]
    IN  /\ ev.state # TemplateFailed
        /\ ev.cond = None \/ cond_env = "True"
        /\ ev.start # BadTime /\ ev.end # BadTime
        /\ ev.start_offset # BadOffset /\ ev.end_offset # BadOffset
        /\ apply_offset(get_start(ev), ev.start_offset)
              = apply_offset(get_end(ev), ev.end_offset)

\* the configuration without its event k
C30_Without(k) ==
    [cfg EXCEPT !.events = SubSeq(cfg.events, 1, k - 1)
                           \o SubSeq(cfg.events, k + 1, Len(cfg.events))]

\* C30: a degenerate event, whose resolved start equals its resolved end,
\* is dropped whatever its allow_wrap: the compilation produces the state
\* and attribute partitions it produces without the event, and the event's
\* label is not recorded in error_states.
C30_DegenerateDropped ==
    \A k \in 1..Len(cfg.events) :
        C30_Degenerate(k) =>
            \A p \in {process_events(Self, cfg, cond_env, now)} :
                \A q \in {process_events(Self, C30_Without(k), cond_env, now)} :
                    /\ p._states = q._states
                    /\ p._custom_attributes = q._custom_attributes
                    /\ p.error_states = q.error_states
                    /\ cfg.events[k].state \notin p.error_states
                    /\ \A i \in 1..Len(p._states) :
                           p._states[i].label # cfg.events[k].state

\* "gap", whose start offset makes it 10:00-10:00 and for which wrapping is
\* allowed by the sensor, has just been compiled after "on": the partitions
\* are those of "on" alone and error_states is empty
C30_Witness ==
    /\ last.op = "recalculate" /\ last.compiles = 1
    /\ cfg.allow_wrap
    /\ Len(cfg.events) = 2
    /\ cfg.events[1].state = "on" /\ cfg.events[2].state = "gap"
    /\ C30_Degenerate(2)
    /\ error_states = {} /\ "gap" \in known_states
    /\ _states = << [label |-> "off",
                     iv |-> closedopen(time_min, HM(8, 0))
                            \cup closedopen(HM(12, 0), time_max)],
                    [label |-> "on", iv |-> closedopen(HM(8, 0), HM(12, 0))] >>
    /\ _custom_attributes =
           << << [label |-> "std",
                  iv |-> closedopen(time_min, HM(8, 0))
                         \cup closedopen(HM(12, 0), time_max)],
                 [label |-> "eco", iv |-> closedopen(HM(8, 0), HM(12, 0))] >> >>

\* "nil", 09:00-09:00 with its own allow_wrap true under a sensor that
\* forbids wrapping, has been compiled: no layer, no error
C30_WitnessOwnWrap ==
    /\ ~cfg.allow_wrap
    /\ \E k \in 1..Len(cfg.events) :
           /\ cfg.events[k].state = "nil" /\ cfg.events[k].allow_wrap = "True"
           /\ C30_Degenerate(k)
    /\ "nil" \in known_states /\ "nil" \notin error_states
    /\ \A i \in 1..Len(_states) : _states[i].label # "nil"

\* ---- C27
\* a stored record is well-formed: its expires is the text of a timestamp
C27_WellFormed(d) == d.expires[1] = "iso"

\* the overrides of the well-formed records of `stored` that have not
\* expired, in order
C27_Restored(stored) ==
    LET F[i \in 0..Len(stored)] ==
            IF i = 0 THEN <<>>
            ELSE IF C27_WellFormed(stored[i]) /\ stored[i].expires[2] > now
                 THEN Append(F[i - 1],
                             [stored[i] EXCEPT !.expires = stored[i].expires[2]])
                 ELSE F[i - 1]
    IN  F[Len(stored)]

\* C27: when the sensor is restored from persisted data, each malformed
\* record (expires missing, null, unparsable or of a wrong type) is dropped
\* and never enters the override store, every well-formed record of the same
\* list is restored, and no malformed record makes a later compilation or
\* query fail.
C27_MalformedDropped ==
    /\ last.op = "restore" => overrides = C27_Restored(last.stored)
    /\ \A i \in 1..Len(overrides) : overrides[i].expires # NoTime
    /\ last.op \in {"restore", "update"} => last.updated

\* ---- C28
\* the overrides that were serialized into `stored`, those that have expired
\* left out
C28_Serialized(stored) ==
    LET F[i \in 0..Len(stored)] ==
            IF i = 0 THEN <<>>
            ELSE IF stored[i].expires[2] > now
                 THEN Append(F[i - 1],
                             [stored[i] EXCEPT !.expires = stored[i].expires[2]])
                 ELSE F[i - 1]
    IN  F[Len(stored)]

\* C28: the persistence round trip is lossless: Override.from_dict on the
\* mapping that an override was serialized as, whether the store wrote it as
\* text or handed it back as extra_restore_state_data returned it, yields the
\* override again, and a sensor that comes back from a restart or a reload
\* holds the overrides it had, those that have expired since left out.
C28_RoundTrip ==
    /\ \A i \in 1..Len(overrides) :
           /\ from_dict(ToStored(overrides[i])) = <<overrides[i]>>
           /\ from_dict(ToNative(overrides[i])) = <<overrides[i]>>
    /\ last.op \in {"restart", "reload"} =>
           overrides = C28_Serialized(last.stored)

\* ---- C29
\* C29: the override mutations are serialized with the compilations: however
\* a suspended process_events is interleaved with set_override,
\* remove_override, clear_overrides and the compilation each of them starts,
\* once no compilation is in flight the published partition is the one
\* compiled from the overrides that the store holds.
C29_PublishedReflectsStore ==
    tasks = <<>> =>
        /\ compiled_from = overrides
        /\ _states = process_events(Self, cfg, cond_env, now)._states

\* ---- C31
\* C31: an override that set_override accepts at `now` is not already
\* expired: after the call the store holds it, with an expires later than
\* `now`, so the update that closes the call has not swept it.
C31_AcceptedNotExpired ==
    (last.op = "set_override" /\ last.result = "True")
        => \E i \in 1..Len(overrides) :
               /\ overrides[i].id = last.arg.id
               /\ overrides[i].state = last.arg.state
               /\ overrides[i].end = C12_End(last.arg) % Day
               /\ overrides[i].expires > now

\* ---- C32
\* the icon of label S in the items that the last compilation processed: that
\* of the last item of label S, None when no item has label S
C32_Expected(S) ==
    LET items == LayerItems(cfg.events, compiled_from)
        hits == {i \in 1..Len(items) : items[i].state = S}
    IN  IF hits = {} THEN None
        ELSE items[CHOOSE i \in hits : \A j \in hits : j <= i].icon

\* C32: the icon that a query reports for the current state S depends only on
\* the events and overrides that the most recent compilation processed: it
\* is the icon of the last processed item of label S (None, shown as the
\* default icon, when there is none), never that of an override which the
\* compilation did not read any more.
C32_IconFromLastCompilation ==
    (last.updated /\ last.op # "advance")
        => attributes.icon = C32_Expected(value)

\* ---- C33
\* C33: after every query, however compilations, queries and override
\* operations are interleaved, the state that the query reports is one of the
\* known states it reports, and every label of error_states is a known
\* state.
C33_ReportedStateKnown ==
    (last.op \in {"update", "process_events"} /\ last.updated)
        => /\ value \in known_states
           /\ error_states \subseteq known_states

\* ---- C34
\* the indices of the overrides of id "turn_on_off" in ovs
C34_Switches(ovs) == {i \in 1..Len(ovs) : ovs[i].id = "turn_on_off"}

\* the state that the service op is to set, None when it is to do nothing:
\* "on" for turn_on and "off" for turn_off when that state is known; for
\* toggle, when both are known, the opposite of the current state
C34_Target(op) ==
    IF op = "turn_on"
    THEN (IF "on" \in known_states THEN "on" ELSE None)
    ELSE IF op = "turn_off"
    THEN (IF "off" \in known_states THEN "off" ELSE None)
    ELSE IF ~ {"on", "off"} \subseteq known_states THEN None
    ELSE IF value = "on" THEN "off"
    ELSE IF value = "off" THEN "on"
    ELSE None

\* C34: a call of turn_on, turn_off or toggle that has nothing to set (its
\* target state is not known; for toggle, the current state is neither "on"
\* nor "off") leaves the override store as it is; a call that takes effect
\* set the target state (for toggle, the opposite of the current state); and
\* after every call at most one override has the id "turn_on_off", which
\* carries the state of the last call that took effect.
C34_TurnOnOffToggle ==
    [][ last'.op \in {"turn_on", "turn_off", "toggle"} =>
          /\ C34_Target(last'.op) = None =>
                 overrides' = overrides /\ last'.result = "None"
          /\ last'.result = "True" =>
                 /\ C34_Target(last'.op) # None
                 /\ \E i \in C34_Switches(overrides') :
                        overrides'[i].state = C34_Target(last'.op)
          /\ last'.result # "True" =>
                 \A i \in C34_Switches(overrides') :
                     \E j \in C34_Switches(overrides) :
                         overrides'[i] = overrides[j]
          /\ Cardinality(C34_Switches(overrides')) <= 1 ]_vars

\* at 09:15, inside the event "on", toggle has set "on": the state it found
\* was the "off" of an earlier turn_off or toggle, whose override it replaced
C34_Witness ==
    /\ now = HM(9, 15)
    /\ last.op = "toggle" /\ last.result = "True"
    /\ last.arg.state = "on"
    /\ overrides = << [overrides[1] EXCEPT !.state = "on"] >>
    /\ overrides[1].id = "turn_on_off"
    /\ value = "on"

\* ---- C35
\* event k of the legacy sensor is one the claim speaks of at the minute nu:
\* its condition holds, nu lies in [start, end), and no later event of the
\* list has a range that meets the range of event k
C35_InRange(k, nu) ==
    LET ev == cfg.events[k]
    IN  /\ legacy_cond_holds(ev.cond, cond_env)
        /\ ev.start <= nu /\ nu < ev.end
        /\ \A j \in (k + 1)..Len(cfg.events) :
               ~ (Max2(ev.start, cfg.events[j].start)
                      < Min2(ev.end, cfg.events[j].end))

\* C35: in the legacy module the range of an event is half-open,
\* [start, end): a query at a minute t with start <= t < end, t = start
\* included, reports the state of an event whose condition holds and that no
\* later event overlaps.
C35_LegacyHalfOpen ==
    last.op \in {"setup", "update"} =>
        \A k \in 1..Len(cfg.events) :
            C35_InRange(k, simple_time(TimeOf(now))) =>
                legacy_native_value(value) = cfg.events[k].state
====
